---- MODULE Spec2Model ----
(***************************************************************************)
(* The script execution engine of package task (src/unnamed/part_003,     *)
(* the file starting at line 288).                                         *)
(*                                                                         *)
(* A script is a growable list of actions with a cursor and a lazily       *)
(* created rollback script.  Run takes the action at the cursor and hands  *)
(* it to RunAction, which polls the cancellation signal, runs the action   *)
(* and applies State.Policy to a failure.  Go calls are modelled by an     *)
(* explicit call stack: one step is the code between two calls or returns. *)
(* The variable trace records what was started, what failed and what was   *)
(* logged; it is read by the properties only.                              *)
(*                                                                         *)
(* Spec runs scripts built from the engine's own combinators, SpecStd      *)
(* scripts that redirect output (src/os.go), SpecCmd a command line        *)
(* resolved by Command.Exec (src/command.go).                              *)
(***************************************************************************)
EXTENDS Integers, Sequences, FiniteSets, TLC

\* ---------------------------------------------------------------- bounds
\* longest list handed to NewScript
MaxLen == 2

\* ------------------------------------------------------------- constants
PolicyFail == 0
PolicyContinue == 2
PolicyLog == 4
PolicySkipRollback == 8

BranchUnset == 0
BranchTrue == 1

\* st.Policy & bit != 0
HasBit(p, bit) == (p \div bit) % 2 = 1

\* a RunAction that never logs
LogsNever(pol) == FALSE

\* if st.Policy&PolicyLog != 0 { st.Error(err) }
Logs(pol) == HasBit(pol, PolicyLog)

\* ---------------------------------------------------------------- errors
\* An error is the token sequence of its message; nil is the empty one.
TokEOF == 0
TokCanceled == -1
TokRollbackFailed == -2

Nil == <<>>
EOF == <<TokEOF>>
Canceled == <<TokCanceled>>
\* the error leaf action i returns when it fails; leaf 0 is an action whose
\* failure is io.EOF (its input ran out)
ErrOf(i) == <<i>>
\* fmt.Errorf("unknown policy: %v", st.Policy), the error of the RunAction
\* that switches on the policy
ErrUnknownPolicy == <<-12>>

\* fmt.Errorf("%v, rollback failed: %v", err, rberr)
Combined(err, rberr) == err \o <<TokRollbackFailed>> \o rberr

\* --------------------------------------------------------------- actions
\* An Action value.  k is the implementation, n its integer parameter,
\* tags the Switch case keys and sub the actions it holds.
Act(k, n, tags, sub) == [k |-> k, n |-> n, tags |-> tags, sub |-> sub]

\* no action: a nil Action
NoAct == Act("none", 0, <<>>, <<>>)

\* a user ActionFunc doing some work; its outcome is its own
Work(i) == Act("work", i, <<>>, <<>>)
\* a user ActionFunc that calls sc.Add(a...) and returns nil
AddA(as) == Act("add", 0, <<>>, as)
\* Rollback(a...)
RollbackA(as) == Act("rollback", 0, <<>>, as)
\* Defer(a...)
DeferA(as) == Act("defer", 0, <<>>, as)
\* a user ActionFunc that sets st.Branch and returns nil
SetBranch(b) == Act("branch", b, <<>>, <<>>)
\* WithPolicy(p, a)
WithPolicy(p, a) == Act("with", p, <<>>, <<a>>)
\* Switch(f, sw) with sw = {tags[i] -> cases[i]}
Switch(f, tags, cases) == Act("switch", 0, tags, <<f>> \o cases)

\* WithStdOutErr(stdout, stderr, childScript) and WithStdCombined(std,
\* childScript); child is the script object handed in
WithStdOutErr(out, err, child) == Act("stdouterr", child, <<out, err>>, <<>>)
WithStdCombined(std, child) == Act("stdcombined", child, <<std>>, <<>>)

\* the values the std arguments take: nil, an io.Writer, a VAR
StdNil == [t |-> "nil", v |-> ""]
StdWriter(w) == [t |-> "writer", v |-> w]
StdVar(name) == [t |-> "var", v |-> name]

\* the writer nil, and the bytes.Buffer that outputSetup(name, std) makes
\* for a VAR
NilWriter == "nil"
Buffer(name, std) == [buf |-> name, var |-> std.v]

\* outputSetup(name, std): the writer its first function returns
outputSetupPre(name, std) ==
    CASE std.t = "nil" -> NilWriter
      [] std.t = "writer" -> std.v
      [] std.t = "var" -> Buffer(name, std)

\* a Set that forgets the other entries
SetOnly(b, name, v) == [x \in {name} |-> v]

\* st.Set(name, v)
Set(b, name, v) == [x \in DOMAIN b \cup {name} |-> IF x = name THEN v ELSE b[x]]

\* outputSetup(name, std): what its second function does to the bucket; the
\* bytes of a buffer are stood for by the buffer
outputSetupPost(b, name, std) ==
    IF std.t = "var" THEN Set(b, std.v, Buffer(name, std)) ELSE b

\* --------------------------------------------------------------- Command
\* A string is the sequence of its pieces: "-f1=box" is <<"-", "f1", "=",
\* "box">>, "--" is <<"-", "-">>, "" is <<>>.  An int64 v in the bucket is
\* <<"int64", v>>, a bool is <<"bool", v>>, and the "args" entry is a
\* sequence of strings.
FlagAuto == 0
FlagString == 1
FlagBool == 2
FlagInt64 == 3
FlagFloat64 == 4
FlagDuration == 5

\* Flag.Value is nil
NoCell == ""

\* a Flag; hasdef tells Default from nil.  A Default that is not a string
\* is <<kind, v>> for the Go type kind ("bool", "int", "int32", "int64",
\* "float32", "float64", "duration", "bytes"); Value is the type of the
\* pointer it holds ("*string", "*bool", ..., "*duration") or NoCell
Flag(name, envName, hasdef, def, type) ==
    [name |-> name, env |-> envName, hasdef |-> hasdef, def |-> def, type |-> type,
     value |-> NoCell]

\* the flag fl with Value: cell
WithValue(fl, cell) == [fl EXCEPT !.value = cell]

\* A flag may be marked Required (TestCommand/required-missing declares two
\* such flags); the resolver that enforces the mark is not among the
\* sources.
AsRequired(fl) == fl @@ ("required" :> TRUE)
Required(fl) == "required" \in DOMAIN fl /\ fl.required

\* the errors of Command.Exec and flagStatus.set
ErrAlreadyDeclared == <<-3>>
ErrInvalidFlag == <<-4>>
ErrInvalidCommand == <<-5>>
ErrExpectedValue == <<-6>>
ErrIncorrectCommand == <<-7>>
ErrParse == <<-8>>
ErrUnknownFlagType == <<-9>>
ErrInvalidDefault == <<-10>>
ErrMissingScript == <<-11>>

\* the errors made by c.helpError: they are of type ErrUsage
ErrUsage == {ErrInvalidFlag, ErrInvalidCommand, ErrIncorrectCommand}

\* c.Exec(args), and the Action of a command in the manner of showVar: it
\* reads the bucket and returns nil
ExecA(c, args) == Act("exec", c, args, <<>>)
showVar(c) == Act("show", c, <<>>, <<>>)

\* the commands: cmder with the flags f1, f3 (environment CMDER_F3) and the
\* int64 flag n, and its sub-command run2 with the flag c1 (environment
\* CMDER_C1)
Cmder == 1
Run2 == 2

\* the commands of ExampleCommandArgs: cmder with the flag f1 and no Action,
\* its sub-commands run1 (with the sub-command run1b, which has no Action)
\* and run2 (with the bool flag tf)
ArgsCmder == 3
Run1 == 4
Run1b == 5
Run2Tf == 6
ArgsCommands ==
    <<[name |-> "cmder",
       flags |-> <<Flag("f1", "", TRUE, <<"ghi">>, FlagAuto)>>,
       commands |-> <<Run1, Run2Tf>>,
       action |-> NoAct],
      [name |-> "run1",
       flags |-> <<>>,
       commands |-> <<Run1b>>,
       action |-> showVar(Run1)],
      [name |-> "run1b",
       flags |-> <<>>,
       commands |-> <<>>,
       action |-> NoAct],
      [name |-> "run2",
       flags |-> <<Flag("tf", "", TRUE, <<"bool", "false">>, FlagBool)>>,
       commands |-> <<>>,
       action |-> showVar(Run2Tf)]>>

TestCommands ==
    <<[name |-> "cmder",
       flags |-> <<Flag("f1", "", TRUE, <<"ghi">>, FlagAuto),
                   Flag("f3", "CMDER_F3", TRUE, <<"fhg">>, FlagAuto),
                   Flag("n", "", FALSE, <<>>, FlagInt64)>>,
       commands |-> <<Run2>>,
       action |-> showVar(Cmder)],
      [name |-> "run2",
       flags |-> <<Flag("c1", "CMDER_C1", TRUE, <<"dv">>, FlagAuto)>>,
       commands |-> <<>>,
       action |-> showVar(Run2)]>>

\* the types of pointer a Flag.Value can hold, and Defaults of the Go types
CellKinds == <<"*string", "*bool", "*int64", "*int32", "*int", "*float64", "*float32",
               "*duration">>
DefaultValues == << <<"ghi">>, <<"bool", "false">>, <<"int", "7">>, <<"int32", "7">>,
                    <<"int64", "7">>, <<"float32", "7">>, <<"float64", "7">>,
                    <<"duration", "7s">>, <<"bytes", "7">> >>
FlagTypes == <<FlagAuto, FlagString, FlagBool, FlagInt64, FlagFloat64, FlagDuration>>

\* the declarations of a flag k with environment KIND_K: with a Value of
\* each type and no Default, then with each Default under each Type
KindFlags ==
    [i \in 1..Len(CellKinds) |->
        WithValue(Flag("k", "KIND_K", FALSE, <<>>, FlagAuto), CellKinds[i])]
    \o [j \in 1..(Len(DefaultValues) * Len(FlagTypes)) |->
        Flag("k", "KIND_K", TRUE, DefaultValues[((j - 1) \div Len(FlagTypes)) + 1],
             FlagTypes[((j - 1) % Len(FlagTypes)) + 1])]

\* one command for each declaration of k, between the flags e and z
KindBase == Len(TestCommands) + Len(ArgsCommands)
KindCommands ==
    [i \in 1..Len(KindFlags) |->
        [name |-> "kinds",
         flags |-> <<Flag("e", "KIND_E", FALSE, <<>>, FlagAuto),
                     KindFlags[i],
                     Flag("z", "KIND_Z", FALSE, <<>>, FlagAuto)>>,
         commands |-> <<>>,
         action |-> showVar(KindBase + i)]]

\* the command of TestCommand/required-missing: f1 and f3 are Required
ReqCmder == KindBase + Len(KindCommands) + 1
ReqCommands ==
    <<[name |-> "cmder",
       flags |-> <<AsRequired(Flag("f1", "", TRUE, <<"ghi">>, FlagAuto)),
                   Flag("f2", "", TRUE, <<"nmo">>, FlagAuto),
                   AsRequired(Flag("f3", "CMDER_F3", TRUE, <<"fhg">>, FlagAuto))>>,
       commands |-> <<>>,
       action |-> showVar(ReqCmder)]>>

\* every command, by its number
Commands == TestCommands \o ArgsCommands \o KindCommands \o ReqCommands

\* flags that never take the next string
spaceValueNever(ft) == FALSE

\* flags that always take the next string
spaceValueAlways(ft) == TRUE

\* FlagType.spaceValue
spaceValue(ft) == ft # FlagBool

\* the Go type of a Default ("string" for a string)
GoKinds == {"bool", "int", "int32", "int64", "float32", "float64", "duration", "bytes"}
KindOf(v) == IF v # <<>> /\ v[1] \in GoKinds THEN v[1] ELSE "string"

\* flagType(v) for the Go type k of v, or of what the pointer v points to
flagTypeOf(k) ==
    CASE k = "string" -> FlagString
      [] k = "bool" -> FlagBool
      [] k \in {"int64", "int32", "int"} -> FlagInt64
      [] k \in {"float64", "float32"} -> FlagFloat64
      [] k = "duration" -> FlagDuration
      [] OTHER -> FlagAuto

\* flagType(v) for a default value
flagType(v) == flagTypeOf(KindOf(v))

\* the type a pointer of type cell points to
Elem(cell) ==
    CASE cell = "*string" -> "string"
      [] cell = "*bool" -> "bool"
      [] cell = "*int64" -> "int64"
      [] cell = "*int32" -> "int32"
      [] cell = "*int" -> "int"
      [] cell = "*float64" -> "float64"
      [] cell = "*float32" -> "float32"
      [] cell = "*duration" -> "duration"
      [] OTHER -> "bytes"

\* the flag type after flagStatus.init: from Value, then from Default
InitType(fl) ==
    IF fl.type = FlagAuto /\ fl.value # NoCell /\ flagTypeOf(Elem(fl.value)) # FlagAuto
    THEN flagTypeOf(Elem(fl.value))
    ELSE IF fl.type = FlagAuto /\ fl.hasdef THEN flagType(fl.def)
    ELSE fl.type

\* flagStatus.init: the Default is of a Go type the flag type takes
DefaultOk(ft, k) ==
    CASE ft = FlagString -> k = "string"
      [] ft = FlagBool -> k = "bool"
      [] ft = FlagInt64 -> k \in {"int32", "int", "int64"}
      [] ft = FlagFloat64 -> k \in {"float32", "float64"}
      [] ft = FlagDuration -> k = "duration"
      [] OTHER -> FALSE

\* an init that leaves the Default as declared
InitDefaultSame(fl) == fl.def

\* flagStatus.init: fl.Default after the switch that widens it
InitDefault(fl) ==
    LET k == KindOf(fl.def) IN
    IF ~fl.hasdef THEN fl.def
    ELSE IF InitType(fl) = FlagInt64 /\ k \in {"int32", "int"} THEN <<"int64", fl.def[2]>>
    ELSE IF InitType(fl) = FlagFloat64 /\ k = "float32" THEN <<"float64", fl.def[2]>>
    ELSE fl.def

\* flagStatus.init: the Value is a pointer the flag type takes.  For
\* FlagDuration the test is made on fl.Default, with *time.Duration
ValueOk(ft, fl) ==
    CASE ft = FlagString -> fl.value = "*string"
      [] ft = FlagBool -> fl.value = "*bool"
      [] ft = FlagInt64 -> fl.value \in {"*int32", "*int", "*int64"}
      [] ft = FlagFloat64 -> fl.value \in {"*float32", "*float64"}
      [] ft = FlagDuration -> fl.hasdef /\ KindOf(InitDefault(fl)) = "*duration"
      [] OTHER -> FALSE

\* the error flagStatus.init returns
init(fl) ==
    LET ft == InitType(fl) IN
    IF fl.hasdef /\ ft = FlagAuto THEN ErrUnknownFlagType
    ELSE IF fl.hasdef /\ ~DefaultOk(ft, KindOf(fl.def)) THEN ErrInvalidDefault
    ELSE IF fl.value # NoCell /\ ft = FlagAuto THEN ErrUnknownFlagType
    ELSE IF fl.value # NoCell /\ ~ValueOk(ft, fl) THEN ErrInvalidDefault
    ELSE Nil

\* strconv.ParseInt(vs, 10, 64), strconv.ParseBool(vs),
\* strconv.ParseFloat(vs, 64) and time.ParseDuration(vs) succeed
Digits == {"7", "2147483648"}
ParseIntOk(vs) == Len(vs) = 1 /\ vs[1] \in Digits
ParseBoolOk(vs) == Len(vs) = 1 /\ vs[1] \in {"true", "false"}
ParseFloatOk(vs) == Len(vs) = 1 /\ vs[1] \in Digits \cup {"0.1"}
ParseDurationOk(vs) == Len(vs) = 1 /\ vs[1] \in {"7s"}

\* int32(v) and float32(v) of the parsed v: 2147483648 wraps to
\* -2147483648, 0.1 is rounded to the nearest float32
Narrow(k, d) ==
    CASE k = "int32" /\ d = "2147483648" -> "-2147483648"
      [] k = "float32" /\ d = "0.1" -> "0.100000001490116"
      [] OTHER -> d

\* a set that lets a second explicit argument through
setAllowedAlways(fs, fromENV) == TRUE

\* flagStatus.set: the test at its top.  fs is [used, env]
setAllowed(fs, fromENV) == ~fs.used \/ (~fromENV /\ fs.env)

\* what flagStatus.set writes through fl.Value when v goes into the
\* bucket: nothing (the cell keeps old) unless the pointer is of a type the
\* case of the flag type looks for
CellAfter(fl, ft, v, old) ==
    LET k == Elem(fl.value) IN
    IF fl.value = NoCell \/ flagTypeOf(k) # ft THEN old
    ELSE IF ft = FlagString THEN v
    ELSE <<k, Narrow(k, v[2])>>

\* flagStatus.set(st, vs, fromENV) on the bucket b: the error, the bucket
\* and the flagStatus afterwards.  fs.cell is what fl.Value points to
\* (<<>> while nothing was written)
set(b, fs, fl, vs, fromENV) ==
    LET ft == InitType(fl)
        fs2 == [fs EXCEPT !.used = TRUE, !.env = fs.env \/ fromENV]
        fail(e) == [err |-> e, b |-> b, fs |-> fs2]
        ok(v) == [err |-> Nil, b |-> Set(b, fl.name, v),
                  fs |-> [fs2 EXCEPT !.cell = CellAfter(fl, ft, v, fs.cell)]]
    IN  IF ~setAllowed(fs, fromENV) THEN [err |-> ErrAlreadyDeclared, b |-> b, fs |-> fs]
        ELSE CASE ft \in {FlagAuto, FlagString} -> ok(vs)
               [] ft = FlagBool ->
                    IF vs = <<>> THEN ok(<<"bool", "true">>)
                    ELSE IF ParseBoolOk(vs) THEN ok(<<"bool">> \o vs) ELSE fail(ErrParse)
               [] ft = FlagInt64 ->
                    IF ParseIntOk(vs) THEN ok(<<"int64">> \o vs) ELSE fail(ErrParse)
               [] ft = FlagFloat64 ->
                    IF ParseFloatOk(vs) THEN ok(<<"float64">> \o vs) ELSE fail(ErrParse)
               [] ft = FlagDuration ->
                    IF ParseDurationOk(vs) THEN ok(<<"duration">> \o vs) ELSE fail(ErrParse)

\* what Exec's function leaves behind: the error it returns, the bucket,
\* and the actions it handed to sc.Add
Res(err, b, add, fss) == [err |-> err, b |-> b, add |-> add, fss |-> fss]

\* the index in c.Flags of the flag called name (0: flagLookup has none)
FlagIndex(c, name) ==
    IF \E i \in 1..Len(c.flags) : c.flags[i].name = name
    THEN CHOOSE i \in 1..Len(c.flags) : c.flags[i].name = name
    ELSE 0

\* the first loop of Exec over c.Flags[i..]: init and the environment
\* fallbacks.
\* e is State.Env, fss the flagStatus of each flag
RECURSIVE EnvLoop(_, _, _, _, _)
EnvLoop(c, e, b, fss, i) ==
    IF i > Len(c.flags) THEN [err |-> Nil, b |-> b, fss |-> fss]
    ELSE LET fl == c.flags[i] IN
         IF init(fl) # Nil THEN [err |-> init(fl), b |-> b, fss |-> fss]
         ELSE IF fl.env # "" /\ fl.env \in DOMAIN e /\ e[fl.env] # <<>>
         THEN LET r == set(b, fss[i], fl, e[fl.env], TRUE) IN
              IF r.err # Nil THEN [err |-> r.err, b |-> r.b, fss |-> fss]
              ELSE EnvLoop(c, e, r.b, [fss EXCEPT ![i] = r.fs], i + 1)
         ELSE EnvLoop(c, e, b, fss, i + 1)

\* a default loop that does not skip the flags already set
UnusedAlways(fs) == TRUE

\* if fs.used { continue }
Unused(fs) == ~fs.used

\* for _, fs := range flagLookup { if fs.used { continue }; fs.setDefault(st) }
RECURSIVE Defaults(_, _, _, _)
Defaults(c, b, fss, i) ==
    IF i > Len(c.flags) THEN b
    ELSE LET fl == c.flags[i] IN
         Defaults(c, IF Unused(fss[i]) /\ fl.hasdef THEN Set(b, fl.name, InitDefault(fl)) ELSE b,
                  fss, i + 1)

\* the child command called by the string a (0: cmdLookup has none)
CmdLookup(c, a) ==
    IF \E k \in 1..Len(c.commands) : a = <<Commands[c.commands[k]].name>>
    THEN c.commands[CHOOSE k \in 1..Len(c.commands) : a = <<Commands[c.commands[k]].name>>]
    ELSE 0

\* strings.SplitN(a, "=", 2): the part before the first "=", whether there
\* is one, and the part after it
EqAt(a) == IF \E i \in 1..Len(a) : a[i] = "="
           THEN CHOOSE i \in 1..Len(a) : a[i] = "=" /\ \A j \in 1..(i - 1) : a[j] # "="
           ELSE 0
NameOf(a) == IF EqAt(a) = 0 THEN a ELSE SubSeq(a, 1, EqAt(a) - 1)
ValueOf(a) == IF EqAt(a) = 0 THEN <<>> ELSE SubSeq(a, EqAt(a) + 1, Len(a))

\* an argument loop to which "--" is a flag like any other
DashDashNever(a) == FALSE

\* a = a[1:]; if a == "-"
DashDash(a) == a = <<"-">>

\* The Required mark is checked when the defaults are applied at the end
\* of the argument loop: a Required flag that neither an argument nor the
\* environment set makes Exec return the usage error `flag "<name>"
\* required`, here for the first such flag in the order of declaration.
ErrRequired(i) == <<-13, i>>
RequiredMissing(c, fss) ==
    LET m == {i \in 1..Len(c.flags) : Required(c.flags[i]) /\ Unused(fss[i])} IN
    IF m = {} THEN 0 ELSE CHOOSE i \in m : \A j \in m : i <= j

\* Exec after the argument loop: defaults, then the leaf action
Finish(c, b, fss, nextFlag) ==
    LET b2 == Defaults(c, b, fss, 1) IN
    IF RequiredMissing(c, fss) # 0 THEN Res(ErrRequired(RequiredMissing(c, fss)), b, <<>>, fss)
    ELSE IF nextFlag # 0 THEN Res(ErrExpectedValue, b2, <<>>, fss)
    ELSE IF c.action = NoAct THEN Res(ErrIncorrectCommand, b2, <<>>, fss)
    ELSE Res(Nil, b2, <<c.action>>, fss)

\* the argument loop of Exec; nextFlag is the index of the flag waiting for
\* its value (0: nil)
RECURSIVE ArgLoop(_, _, _, _, _)
ArgLoop(c, b, fss, nextFlag, args) ==
    IF args = <<>> THEN Finish(c, b, fss, nextFlag)
    ELSE
    LET a == Head(args)
        rest == Tail(args)
    IN
    IF nextFlag # 0
    THEN LET r == set(b, fss[nextFlag], c.flags[nextFlag], a, FALSE) IN
         IF r.err # Nil THEN Res(r.err, r.b, <<>>, fss)
         ELSE ArgLoop(c, r.b, [fss EXCEPT ![nextFlag] = r.fs], 0, rest)
    ELSE IF a = <<>> THEN ArgLoop(c, b, fss, 0, rest)
    ELSE IF a[1] # "-"
    THEN IF c.commands = <<>>
         THEN Finish(c, Set(b, "args", args), fss, 0)
         ELSE LET b2 == Defaults(c, b, fss, 1) IN
              IF CmdLookup(c, a) = 0 THEN Res(ErrInvalidCommand, b2, <<>>, fss)
              ELSE Res(Nil, b2, <<ExecA(CmdLookup(c, a), rest)>>, fss)
    ELSE IF DashDash(Tail(a)) THEN Finish(c, Set(b, "args", rest), fss, 0)
    ELSE
    LET name == NameOf(Tail(a))
        i == IF Len(name) = 1 THEN FlagIndex(c, name[1]) ELSE 0
    IN
    IF i = 0 THEN Res(ErrInvalidFlag, b, <<>>, fss)
    ELSE IF EqAt(Tail(a)) = 0 /\ spaceValue(InitType(c.flags[i]))
    THEN ArgLoop(c, b, fss, i, rest)
    ELSE LET r == set(b, fss[i], c.flags[i], ValueOf(Tail(a)), FALSE) IN
         IF r.err # Nil THEN Res(r.err, r.b, <<>>, fss)
         ELSE ArgLoop(c, r.b, [fss EXCEPT ![i] = r.fs], 0, rest)

\* the memory cells after the function of c.Exec(args) ran with the
\* flagStatus fss at its end: those of the flags of c it wrote through
\* Value, the others as in old
Written(c, fss, old) ==
    LET w == {i \in 1..Len(c.flags) : fss[i].cell # <<>>}
        at(name) == CHOOSE i \in w : c.flags[i].name = name
    IN  [x \in DOMAIN old \cup {c.flags[i].name : i \in w} |->
            IF \E i \in w : c.flags[i].name = x THEN fss[at(x)].cell ELSE old[x]]

\* the function c.Exec(args) returns, run on State.Env e and the bucket b
Exec(c, args, e, b) ==
    LET fss0 == [i \in 1..Len(c.flags) |-> [used |-> FALSE, env |-> FALSE, cell |-> <<>>]]
        r == EnvLoop(c, e, b, fss0, 1)
    IN  IF r.err # Nil THEN Res(r.err, r.b, <<>>, r.fss)
        ELSE ArgLoop(c, r.b, r.fss, 0, args)

\* ----------------------------------------------------------------- state
VARIABLES
    scripts,    \* the script objects: at, list, rollback (0 = nil pointer)
    policy,     \* State.Policy
    branch,     \* State.Branch
    cancelled,  \* the run's ctx.Done() has fired
    stack,      \* the Go call stack, innermost call last
    ret,        \* the value returned by the call that returned last
    trace,      \* history: actions started, failures seen, errors logged
    logger,     \* State.ErrorLogger is not nil
    stdout,     \* State.Stdout
    stderr,     \* State.Stderr
    env,        \* State.Env
    bucket,     \* State.bucket
    cells,      \* what the Value pointers of the flags point to, by flag name
    notify,     \* Start: the signals waiting in the notify channel
    once,       \* Start: the sync.Once has run its function
    fin,        \* Start: how many times close(fin) was called
    runErr,     \* Start: what the atomic.Value holds
    goroutines, \* Start: where Start, the run goroutine and the timeout
                \* goroutine stand, and the run goroutine's err
    sent,       \* history: the interrupts the process was sent
    atClose     \* history: where the run goroutine stood when fin closed

\* the fields of State the script engine itself only hands on; an Event
\* also records State.Stdout, State.Stderr and the bucket as out, errw, bkt
ioState == <<logger, stdout, stderr>>
cmdState == <<env, bucket, cells>>
startState == <<notify, once, fin, runErr, goroutines, sent, atClose>>

vars ==
    <<scripts, policy, branch, cancelled, stack, ret, trace, ioState, cmdState,
      startState>>

\* the main script and the position of the top-level Run
MainSc == 1

\* a nil Script
NoScript == 0

Frame(f, sc, ctx, a, pc, pos, err, orig) ==
    [f |-> f, sc |-> sc, ctx |-> ctx, a |-> a, pc |-> pc, pos |-> pos,
     err |-> err, orig |-> orig]

RunFrame(sc, ctx) == Frame("Run", sc, ctx, NoAct, "next", 0, Nil, 0)
RunActionFrame(sc, ctx, a, pos) == Frame("RunAction", sc, ctx, a, "check", pos, Nil, 0)
BodyFrame(sc, ctx, a) == Frame("body", sc, ctx, a, "start", 0, Nil, 0)

\* One entry of the history.  ev is "start" (a.Run is called), "fail"
\* (a.Run returned err to RunAction) or "log" (st.Error(err)); sc and pos
\* are the script and the list position runNext took the action from (0 for
\* an action handed to RunAction by another action); pol, cz and rb are
\* State.Policy, the cancellation flag and the number of rollback actions
\* registered on sc at that moment; len is the length of sc's list, br is
\* State.Branch and by is where the caller of RunAction stands ("ret" in Run
\* and WithPolicy, "probe" and "case" in Switch).
Event(ev, sc, pos, a, err, pol, cz, rb) ==
    [ev |-> ev, sc |-> sc, pos |-> pos, a |-> a, err |-> err, pol |-> pol,
     cz |-> cz, rb |-> rb, len |-> Len(scripts[sc].list), br |-> branch,
     by |-> IF Len(stack) >= 2 THEN stack[Len(stack) - 1].pc ELSE "",
     out |-> stdout, errw |-> stderr, bkt |-> bucket]

Top == stack[Len(stack)]
Pop == SubSeq(stack, 1, Len(stack) - 1)
SetTop(fr) == [stack EXCEPT ![Len(stack)] = fr]

Running == stack # <<>>
Done == stack = <<>>

\* ------------------------------------------------------------------ Init
\* os.Stdout and os.Stderr, as DefaultState puts them into State
OsStdout == "os.Stdout"
OsStderr == "os.Stderr"

\* an atomic.Value nothing was stored in
Unset == <<-14>>

\* no Start is under way
NoGoroutines == [main |-> "none", run |-> "none", timer |-> "none", err |-> Nil]
NoStart ==
    /\ notify = 0 /\ once = FALSE /\ fin = 0 /\ runErr = Unset
    /\ goroutines = NoGoroutines /\ sent = 0 /\ atClose = "open"

\* an empty State.Env and an empty bucket: maps from names to values
NoEnv == [x \in {} |-> ""]
NoBucket == [x \in {} |-> ""]

\* the leaf actions: Work(0) fails with io.EOF, Work(1) with its own error
Leaves == {Work(0), Work(1)}

\* argument lists of Add, Rollback and Defer
Payloads == { <<Work(1), Work(0)>> }

\* policies a caller hands to WithPolicy
WithPols == {PolicyFail, PolicySkipRollback}

\* policies a caller puts into State.Policy before Run
InitPols == {PolicyFail, PolicyContinue, PolicyLog, PolicySkipRollback}

\* the actions a caller composes a script from
Universe ==
    Leaves
    \cup {AddA(p) : p \in Payloads}
    \cup {RollbackA(p) : p \in Payloads}
    \cup {DeferA(p) : p \in Payloads}
    \cup {WithPolicy(p, Work(1)) : p \in WithPols}
    \cup {Switch(SetBranch(BranchTrue), <<BranchTrue>>, <<Work(1)>>),
          Switch(SetBranch(BranchTrue), <<BranchUnset>>, <<Work(0)>>),
          Switch(Work(1), <<BranchUnset>>, <<Work(0)>>)}

InitLists == UNION { [1..n -> Universe] : n \in 1..MaxLen }

\* NewScript(a...)
NewScript(as) == [at |-> 0, list |-> as, rollback |-> 0]

\* st := &State{Policy: p}; NewScript(a...).Run(ctx, st, nil)
Init ==
    /\ \E as \in InitLists : scripts = <<NewScript(as)>>
    /\ policy \in InitPols
    /\ branch = BranchUnset
    /\ cancelled = FALSE
    /\ stack = <<RunFrame(MainSc, "ctx")>>
    /\ ret = Nil
    /\ trace = <<>>
    /\ logger \in (IF Logs(policy) THEN BOOLEAN ELSE {TRUE})
    /\ stdout = OsStdout /\ stderr = OsStderr
    /\ env = NoEnv /\ bucket = NoBucket /\ cells = NoBucket
    /\ NoStart

\* --------------------------------------------------------- script methods
\* an Add that puts the new actions in front
AddFront(scs, sc, as) == [scs EXCEPT ![sc].list = as \o @]

\* an Add that drops the actions
AddNothing(scs, sc, as) == scs

\* an Add that puts the new actions right behind the cursor
AddNext(scs, sc, as) ==
    [scs EXCEPT ![sc].list = SubSeq(@, 1, scs[sc].at) \o as
                              \o SubSeq(@, scs[sc].at + 1, Len(@))]

\* sc.Add(a...)
Add(scs, sc, as) == [scs EXCEPT ![sc].list = @ \o as]

\* sc.Rollback(a...)
Rollback(scs, sc, as) ==
    IF scs[sc].rollback = 0
    THEN Append([scs EXCEPT ![sc].rollback = Len(scs) + 1], NewScript(as))
    ELSE Add(scs, scs[sc].rollback, as)

\* sc.Defer(a...)
Defer(scs, sc, as) == Add(Rollback(scs, sc, as), sc, as)

\* number of rollback actions registered on script sc
RbLen(sc) ==
    IF scripts[sc].rollback = 0 THEN 0 ELSE Len(scripts[scripts[sc].rollback].list)

\* a RunAction that hands its own context to the rollback script
RollbackCtxSame(ctx) == ctx

\* the context RunAction hands to the rollback script: context.Background()
RollbackCtx(ctx) == "bg"

\* a RunAction without the cancellation check
CtxDoneNever(ctx) == FALSE

\* select { default: case <-ctx.Done(): return ctx.Err() }
CtxDone(ctx) == ctx = "ctx" /\ cancelled

\* st.Error(err): hands the error to the ErrorLogger unless that is nil;
\* e is the history entry of the failure
StError(e) == IF logger THEN <<[e EXCEPT !.ev = "log"]>> ELSE <<>>

\* a RunAction that forgets the Continue bit
SuppressedNever(pol, err) == err

\* if st.Policy&PolicyContinue != 0 { err = nil }
Suppressed(pol, err) == IF HasBit(pol, PolicyContinue) THEN Nil ELSE err

\* if st.Policy&PolicySkipRollback != 0 { return err }
SkipsRollback(pol) == HasBit(pol, PolicySkipRollback)

\* what Run does with the error of runNext: nil ends the loop iteration,
\* io.EOF returns nil, any other error is returned
RunReturns(err) == IF err = EOF THEN Nil ELSE err

\* ------------------------------------------------------------ the engine
\* a runNext that rewinds the cursor when it finds the list exhausted
runNextRewind ==
    /\ Running /\ Top.f = "Run" /\ Top.pc = "next"
    /\ LET s == scripts[Top.sc] IN
       IF s.at >= Len(s.list)
       THEN /\ stack' = Pop
            /\ ret' = Nil
            /\ scripts' = [scripts EXCEPT ![Top.sc].at = 0]
       ELSE /\ scripts' = [scripts EXCEPT ![Top.sc].at = @ + 1]
            /\ stack' = Append(SetTop([Top EXCEPT !.pc = "ret"]),
                               RunActionFrame(Top.sc, Top.ctx, s.list[s.at + 1], s.at + 1))
            /\ UNCHANGED ret
    /\ UNCHANGED <<policy, branch, cancelled, trace, ioState, cmdState,
                   startState>>

\* runNext, called from the loop of Run
runNext ==
    /\ Running /\ Top.f = "Run" /\ Top.pc = "next"
    /\ LET s == scripts[Top.sc] IN
       IF s.at >= Len(s.list)
       THEN \* io.EOF: Run returns nil
            /\ stack' = Pop
            /\ ret' = Nil
            /\ UNCHANGED scripts
       ELSE /\ scripts' = [scripts EXCEPT ![Top.sc].at = @ + 1]
            /\ stack' = Append(SetTop([Top EXCEPT !.pc = "ret"]),
                               RunActionFrame(Top.sc, Top.ctx, s.list[s.at + 1], s.at + 1))
            /\ UNCHANGED ret
    /\ UNCHANGED <<policy, branch, cancelled, trace, ioState, cmdState,
                   startState>>

\* the loop of Run, after runNext returned
Run ==
    /\ Running /\ Top.f = "Run" /\ Top.pc = "ret"
    /\ IF ret # Nil
       THEN stack' = Pop /\ ret' = RunReturns(ret)
       ELSE stack' = SetTop([Top EXCEPT !.pc = "next"]) /\ UNCHANGED ret
    /\ UNCHANGED <<scripts, policy, branch, cancelled, trace, ioState,
                   cmdState, startState>>

\* RunAction up to the call a.Run(ctx, st, sc)
RunActionCall ==
    /\ Running /\ Top.f = "RunAction" /\ Top.pc = "check"
    /\ IF CtxDone(Top.ctx)
       THEN /\ stack' = Pop
            /\ ret' = Canceled
            /\ UNCHANGED trace
       ELSE /\ stack' = Append(SetTop([Top EXCEPT !.pc = "called"]),
                               BodyFrame(Top.sc, Top.ctx, Top.a))
            /\ trace' = Append(trace, Event("start", Top.sc, Top.pos, Top.a, Nil, policy,
                                             cancelled, RbLen(Top.sc)))
            /\ UNCHANGED ret
    /\ UNCHANGED <<scripts, policy, branch, cancelled, ioState, cmdState,
                   startState>>

\* RunAction from the return of a.Run to the call of sc.rollback.Run
RunActionPolicy ==
    /\ Running /\ Top.f = "RunAction" /\ Top.pc = "called"
    /\ IF ret = Nil
       THEN /\ stack' = Pop
            /\ UNCHANGED <<ret, trace>>
       ELSE LET failed == Event("fail", Top.sc, Top.pos, Top.a, ret, policy,
                                cancelled, RbLen(Top.sc))
                logged == IF Logs(policy) THEN StError(failed) ELSE <<>>
                err == Suppressed(policy, ret)
            IN  /\ trace' = Append(trace, failed) \o logged
                /\ IF SkipsRollback(policy) \/ err = Nil \/ scripts[Top.sc].rollback = 0
                   THEN /\ stack' = Pop
                        /\ ret' = err
                   ELSE /\ stack' = Append(SetTop([Top EXCEPT !.pc = "rb", !.err = err]),
                                           RunFrame(scripts[Top.sc].rollback, RollbackCtx(Top.ctx)))
                        /\ UNCHANGED ret
    /\ UNCHANGED <<scripts, policy, branch, cancelled, ioState, cmdState,
                   startState>>

\* RunAction after sc.rollback.Run returned
RunActionRollback ==
    /\ Running /\ Top.f = "RunAction" /\ Top.pc = "rb"
    /\ ret' = IF ret = Nil THEN Top.err ELSE Combined(Top.err, ret)
    /\ stack' = Pop
    /\ UNCHANGED <<scripts, policy, branch, cancelled, trace, ioState,
                   cmdState, startState>>

\* ------------------------------------------------------------ the actions
InBody(k, pc) == Running /\ Top.f = "body" /\ Top.a.k = k /\ Top.pc = pc

\* a leaf action returns nil or its error
WorkRun ==
    /\ InBody("work", "start")
    /\ ret' \in {Nil, ErrOf(Top.a.n)}
    /\ stack' = Pop
    /\ UNCHANGED <<scripts, policy, branch, cancelled, trace, ioState,
                   cmdState, startState>>

AddRun ==
    /\ InBody("add", "start")
    /\ scripts' = Add(scripts, Top.sc, Top.a.sub)
    /\ ret' = Nil
    /\ stack' = Pop
    /\ UNCHANGED <<policy, branch, cancelled, trace, ioState, cmdState,
                   startState>>

RollbackRun ==
    /\ InBody("rollback", "start")
    /\ scripts' = Rollback(scripts, Top.sc, Top.a.sub)
    /\ ret' = Nil
    /\ stack' = Pop
    /\ UNCHANGED <<policy, branch, cancelled, trace, ioState, cmdState,
                   startState>>

DeferRun ==
    /\ InBody("defer", "start")
    /\ scripts' = Defer(scripts, Top.sc, Top.a.sub)
    /\ ret' = Nil
    /\ stack' = Pop
    /\ UNCHANGED <<policy, branch, cancelled, trace, ioState, cmdState,
                   startState>>

SetBranchRun ==
    /\ InBody("branch", "start")
    /\ branch' = Top.a.n
    /\ ret' = Nil
    /\ stack' = Pop
    /\ UNCHANGED <<scripts, policy, cancelled, trace, ioState, cmdState,
                   startState>>

\* WithPolicy up to the call of sc.RunAction
WithPolicyCall ==
    /\ InBody("with", "start")
    /\ policy' = Top.a.n
    /\ stack' = Append(SetTop([Top EXCEPT !.pc = "ret", !.orig = policy]),
                       RunActionFrame(Top.sc, Top.ctx, Top.a.sub[1], 0))
    /\ UNCHANGED <<scripts, branch, cancelled, ret, trace, ioState,
                   cmdState, startState>>

\* WithPolicy after sc.RunAction returned
WithPolicyReturn ==
    /\ InBody("with", "ret")
    /\ policy' = Top.orig
    /\ stack' = Pop
    /\ UNCHANGED <<scripts, branch, cancelled, ret, trace, ioState,
                   cmdState, startState>>

\* Switch up to the call sc.RunAction(ctx, st, f)
SwitchProbe ==
    /\ InBody("switch", "start")
    /\ stack' = Append(SetTop([Top EXCEPT !.pc = "probe"]),
                       RunActionFrame(Top.sc, Top.ctx, Top.a.sub[1], 0))
    /\ UNCHANGED <<scripts, policy, branch, cancelled, ret, trace, ioState,
                   cmdState, startState>>

\* a Switch that goes on after a failed probe
ProbeFailedNever(err) == FALSE

\* err := sc.RunAction(ctx, st, f); if err != nil { return err }
ProbeFailed(err) == err # Nil

\* a Switch that leaves the tag in place
ResetBranchKeep(br) == br

\* br := st.Branch; st.Branch = BranchUnset
ResetBranch(br) == BranchUnset

\* Switch from the return of the probe to the call of the case
SwitchCase ==
    /\ InBody("switch", "probe")
    /\ IF ProbeFailed(ret)
       THEN /\ stack' = Pop
            /\ UNCHANGED <<branch, ret>>
       ELSE LET br == branch
                hit == {i \in 1..Len(Top.a.tags) : Top.a.tags[i] = br}
            IN  /\ branch' = ResetBranch(br)
                /\ IF hit # {}
                   THEN /\ stack' = Append(SetTop([Top EXCEPT !.pc = "case"]),
                               RunActionFrame(Top.sc, Top.ctx,
                                              Top.a.sub[1 + (CHOOSE i \in hit : TRUE)], 0))
                        /\ UNCHANGED ret
                   ELSE /\ stack' = Pop
                        /\ ret' = Nil
    /\ UNCHANGED <<scripts, policy, cancelled, trace, ioState, cmdState,
                   startState>>

\* Switch after the case returned
SwitchReturn ==
    /\ InBody("switch", "case")
    /\ stack' = Pop
    /\ UNCHANGED <<scripts, policy, branch, cancelled, ret, trace, ioState,
                   cmdState, startState>>

\* the std argument from which WithStdOutErr sets up the stderr writer
\* (the second outputSetup call is handed stdout)
StderrSetupArg(out, err) == out

\* WithStdOutErr up to the call childScript.Run(ctx, st, sc)
WithStdOutErrCall ==
    /\ InBody("stdouterr", "start")
    /\ stdout' = outputSetupPre("stdout", Top.a.tags[1])
    /\ stderr' = outputSetupPre("stderr", StderrSetupArg(Top.a.tags[1], Top.a.tags[2]))
    /\ stack' = Append(SetTop([Top EXCEPT !.pc = "ret", !.orig = <<stdout, stderr>>]),
                       RunFrame(Top.a.n, Top.ctx))
    /\ UNCHANGED <<scripts, policy, branch, cancelled, ret, trace, logger,
                   cmdState, startState>>

\* WithStdOutErr after childScript.Run returned
WithStdOutErrReturn ==
    /\ InBody("stdouterr", "ret")
    /\ bucket' = outputSetupPost(outputSetupPost(bucket, "stdout", Top.a.tags[1]),
                                 "stderr", StderrSetupArg(Top.a.tags[1], Top.a.tags[2]))
    /\ stdout' = Top.orig[1]
    /\ stderr' = Top.orig[2]
    /\ stack' = Pop
    /\ UNCHANGED <<scripts, policy, branch, cancelled, ret, trace, logger,
                   env, cells, startState>>

\* WithStdCombined up to the call childScript.Run(ctx, st, sc)
WithStdCombinedCall ==
    /\ InBody("stdcombined", "start")
    /\ stdout' = outputSetupPre("std", Top.a.tags[1])
    /\ stderr' = outputSetupPre("std", Top.a.tags[1])
    /\ stack' = Append(SetTop([Top EXCEPT !.pc = "ret", !.orig = <<stdout, stderr>>]),
                       RunFrame(Top.a.n, Top.ctx))
    /\ UNCHANGED <<scripts, policy, branch, cancelled, ret, trace, logger,
                   cmdState, startState>>

\* WithStdCombined after childScript.Run returned
WithStdCombinedReturn ==
    /\ InBody("stdcombined", "ret")
    /\ bucket' = outputSetupPost(bucket, "std", Top.a.tags[1])
    /\ stdout' = Top.orig[1]
    /\ stderr' = Top.orig[2]
    /\ stack' = Pop
    /\ UNCHANGED <<scripts, policy, branch, cancelled, ret, trace, logger,
                   env, cells, startState>>

\* the ActionFunc of c.Exec(args)
ExecRun ==
    /\ InBody("exec", "start")
    /\ IF Top.sc = NoScript
       THEN /\ ret' = ErrMissingScript
            /\ UNCHANGED <<scripts, bucket, cells>>
       ELSE LET r == Exec(Commands[Top.a.n], Top.a.tags, env, bucket) IN
            /\ bucket' = r.b
            /\ cells' = Written(Commands[Top.a.n], r.fss, cells)
            /\ scripts' = Add(scripts, Top.sc, r.add)
            /\ ret' = r.err
    /\ stack' = Pop
    /\ UNCHANGED <<policy, branch, cancelled, trace, ioState, env, startState>>

\* the Action of a command
showVarRun ==
    /\ InBody("show", "start")
    /\ ret' = Nil
    /\ stack' = Pop
    /\ UNCHANGED <<scripts, policy, branch, cancelled, trace, ioState,
                   cmdState, startState>>

\* The run's context is cancelled from outside.  The engine reads the
\* signal only at the top of RunAction, so a cancellation between two of
\* its own steps is the same as one during the action that ran just before:
\* it fires before Run starts or while an action is running.
Cancel ==
    /\ Running
    /\ ~cancelled
    /\ trace = <<>> \/ (Top.f = "body" /\ Top.pc = "start")
    /\ cancelled' = TRUE
    /\ UNCHANGED <<scripts, policy, branch, stack, ret, trace, ioState,
                   cmdState, startState>>

Next ==
    \/ runNext
    \/ Run
    \/ RunActionCall
    \/ RunActionPolicy
    \/ RunActionRollback
    \/ WorkRun
    \/ AddRun
    \/ RollbackRun
    \/ DeferRun
    \/ SetBranchRun
    \/ WithPolicyCall
    \/ WithPolicyReturn
    \/ SwitchProbe
    \/ SwitchCase
    \/ SwitchReturn
    \/ Cancel

Spec == Init /\ [][Next]_vars

\* ------------------------------------------- scripts that redirect output
\* the child script handed to WithStdOutErr and WithStdCombined
ChildSc == 2

\* the (stdout, stderr) arguments of WithStdOutErr, the std arguments of
\* WithStdCombined
StdPairs == { <<StdWriter("w1"), StdWriter("w2")>>,
              <<StdVar("out"), StdVar("err")>>,
              <<StdNil, StdWriter("w2")>> }
StdArgs == {StdWriter("w1"), StdVar("std")}

UniverseStd ==
    {WithStdOutErr(p[1], p[2], ChildSc) : p \in StdPairs}
    \cup {WithStdCombined(a, ChildSc) : a \in StdArgs}
    \cup {WithPolicy(p, Work(1)) : p \in {PolicyFail, PolicyContinue}}
    \cup {Work(1)}

InitListsStd == UNION { [1..n -> UniverseStd] : n \in 1..MaxLen }

\* child := NewScript(b1, b0); st := DefaultState(); st.Policy = p;
\* NewScript(a...).Run(ctx, st, nil)
InitStd ==
    /\ \E as \in InitListsStd : scripts = <<NewScript(as), NewScript(<<Work(1), Work(0)>>)>>
    /\ policy \in {PolicyFail, PolicyContinue}
    /\ branch = BranchUnset
    /\ cancelled = FALSE
    /\ stack = <<RunFrame(MainSc, "ctx")>>
    /\ ret = Nil
    /\ trace = <<>>
    /\ logger = TRUE
    /\ stdout = OsStdout /\ stderr = OsStderr
    /\ env = NoEnv /\ bucket = NoBucket /\ cells = NoBucket
    /\ NoStart

NextStd ==
    \/ runNext
    \/ Run
    \/ RunActionCall
    \/ RunActionPolicy
    \/ WorkRun
    \/ WithPolicyCall
    \/ WithPolicyReturn
    \/ WithStdOutErrCall
    \/ WithStdOutErrReturn
    \/ WithStdCombinedCall
    \/ WithStdCombinedReturn
    \/ Cancel

SpecStd == InitStd /\ [][NextStd]_vars

\* ------------------------------------------------- running a command line
\* longest argument vector
MaxArgs == 4

\* the strings of an argument vector
ArgTokens == { <<"-", "f1">>, <<"-", "f3">>, <<"-", "n">>, <<"box">>, <<"7">>, <<"run2">> }
ArgVectors == UNION { [1..n -> ArgTokens] : n \in 0..MaxArgs }

\* State.Env: empty, both fallback variables set, CMDER_F3 set to ""
Envs == { NoEnv,
          [x \in {"CMDER_F3", "CMDER_C1"} |-> <<"sky">>],
          [x \in {"CMDER_F3"} |-> <<>>] }

\* st := DefaultState(); st.Env = e; NewScript(cmd.Exec(args)).Run(ctx, st, nil)
InitCmd ==
    /\ \E args \in ArgVectors : scripts = <<NewScript(<<ExecA(Cmder, args)>>)>>
    /\ policy = PolicyFail
    /\ branch = BranchUnset
    /\ cancelled = FALSE
    /\ stack = <<RunFrame(MainSc, "ctx")>>
    /\ ret = Nil
    /\ trace = <<>>
    /\ logger = TRUE
    /\ stdout = OsStdout /\ stderr = OsStderr
    /\ env \in Envs
    /\ bucket = NoBucket /\ cells = NoBucket
    /\ NoStart

NextCmd ==
    \/ runNext
    \/ Run
    \/ RunActionCall
    \/ RunActionPolicy
    \/ ExecRun
    \/ showVarRun

SpecCmd == InitCmd /\ [][NextCmd]_vars

\* ------------------------------------- the command line of the examples
\* longest argument vector for the commands of ExampleCommandArgs
MaxToks == 4

TreeTokens == { <<"-", "f1">>, <<"-", "tf">>, <<"-", "help">>, <<"-", "-">>,
                <<"xyz">>, <<"run1">>, <<"run2">> }
TreeVectors == UNION { [1..n -> TreeTokens] : n \in 0..MaxToks }

\* sc := ScriptAdd(cmd.Exec(args)); sc.Run(ctx, st, nil), or
\* cmd.Exec(args).Run(ctx, st, nil)
InitTree ==
    /\ \E args \in TreeVectors :
          \/ /\ scripts = <<NewScript(<<ExecA(ArgsCmder, args)>>)>>
             /\ stack = <<RunFrame(MainSc, "ctx")>>
          \/ /\ scripts = <<>>
             /\ stack = <<BodyFrame(NoScript, "ctx", ExecA(ArgsCmder, args))>>
    /\ policy \in {PolicyFail, PolicyContinue}
    /\ branch = BranchUnset
    /\ cancelled = FALSE
    /\ ret = Nil
    /\ trace = <<>>
    /\ logger = TRUE
    /\ stdout = OsStdout /\ stderr = OsStderr
    /\ env = NoEnv
    /\ bucket = NoBucket /\ cells = NoBucket
    /\ NoStart

NextTree ==
    \/ runNext
    \/ Run
    \/ RunActionCall
    \/ RunActionPolicy
    \/ ExecRun
    \/ showVarRun

SpecTree == InitTree /\ [][NextTree]_vars

\* ------------------------------------ a command line behind a Rollback
\* longest argument vector of a resolver that runs behind a Rollback
MaxUse == 2

UseTokens == { <<"-", "help">>, <<"xyz">>, <<"run2">> }
UseVectors == UNION { [1..n -> UseTokens] : n \in 0..MaxUse }

\* st := &State{Policy: p}
\* NewScript(Rollback(work), cmd.Exec(args)).Run(ctx, st, nil)
InitUse ==
    /\ \E args \in UseVectors :
          scripts = <<NewScript(<<RollbackA(<<Work(1)>>), ExecA(ArgsCmder, args)>>)>>
    /\ policy \in InitPols
    /\ branch = BranchUnset
    /\ cancelled = FALSE
    /\ stack = <<RunFrame(MainSc, "ctx")>>
    /\ ret = Nil
    /\ trace = <<>>
    /\ logger = TRUE
    /\ stdout = OsStdout /\ stderr = OsStderr
    /\ env = NoEnv
    /\ bucket = NoBucket /\ cells = NoBucket
    /\ NoStart

NextUse ==
    \/ runNext
    \/ Run
    \/ RunActionCall
    \/ RunActionPolicy
    \/ RunActionRollback
    \/ RollbackRun
    \/ WorkRun
    \/ ExecRun
    \/ showVarRun

SpecUse == InitUse /\ [][NextUse]_vars

\* ------------------------------------------- flags of every type
\* longest argument vector for a command of KindCommands
MaxKind == 2

KindTokens == { <<"-", "k">>, <<"7">>, <<"7s">>, <<"true">>, <<"2147483648">>, <<"0.1">> }
KindVectors == UNION { [1..n -> KindTokens] : n \in 0..MaxKind }

\* State.Env: empty, KIND_E and KIND_Z set, and KIND_K set as well
KindEnvs ==
    { NoEnv, [x \in {"KIND_E", "KIND_Z"} |-> <<"sky">>] }
    \cup { [x \in {"KIND_E", "KIND_K", "KIND_Z"} |-> IF x = "KIND_K" THEN v ELSE <<"sky">>] :
             v \in { <<"7">>, <<"7s">>, <<"true">> } }

\* st.Env = e; Run(ctx, st, cmd.Exec(args)) for a command of KindCommands
InitKinds ==
    /\ \E i \in 1..Len(KindCommands), args \in KindVectors :
          scripts = <<NewScript(<<ExecA(KindBase + i, args)>>)>>
    /\ policy = PolicyFail
    /\ branch = BranchUnset
    /\ cancelled = FALSE
    /\ stack = <<RunFrame(MainSc, "ctx")>>
    /\ ret = Nil
    /\ trace = <<>>
    /\ logger = TRUE
    /\ stdout = OsStdout /\ stderr = OsStderr
    /\ env \in KindEnvs
    /\ bucket = NoBucket /\ cells = NoBucket
    /\ NoStart

NextKinds ==
    \/ runNext
    \/ Run
    \/ RunActionCall
    \/ RunActionPolicy
    \/ ExecRun
    \/ showVarRun

SpecKinds == InitKinds /\ [][NextKinds]_vars

\* ------------------------------------------- policies without a name
\* longest list of a script run under such a policy
MaxPol == 2

\* values of the byte State.Policy that no combination of PolicyContinue,
\* PolicyLog and PolicySkipRollback makes
UnknownPols == {1, 3, 16}

PolLists == UNION { [1..n -> {Work(0), Work(1), RollbackA(<<Work(1)>>)}] : n \in 1..MaxPol }

\* st := &State{Policy: p}; NewScript(a...).Run(ctx, st, nil)
InitPol ==
    /\ \E as \in PolLists : scripts = <<NewScript(as)>>
    /\ policy \in UnknownPols
    /\ branch = BranchUnset
    /\ cancelled = FALSE
    /\ stack = <<RunFrame(MainSc, "ctx")>>
    /\ ret = Nil
    /\ trace = <<>>
    /\ logger = TRUE
    /\ stdout = OsStdout /\ stderr = OsStderr
    /\ env = NoEnv
    /\ bucket = NoBucket /\ cells = NoBucket
    /\ NoStart

NextPol ==
    \/ runNext
    \/ Run
    \/ RunActionCall
    \/ RunActionPolicy
    \/ RunActionRollback
    \/ RollbackRun
    \/ WorkRun

SpecPol == InitPol /\ [][NextPol]_vars

\* ------------------------------------------------------ required flags
\* longest argument vector for the command with Required flags
MaxReq == 3

ReqTokens == { <<"-", "f1">>, <<"-", "f2">>, <<"-", "f3">>, <<"box">> }
ReqVectors == UNION { [1..n -> ReqTokens] : n \in 0..MaxReq }

\* st.Env = item.ENV; Run(ctx, st, item.Command.Exec(ff))
InitReq ==
    /\ \E args \in ReqVectors : scripts = <<NewScript(<<ExecA(ReqCmder, args)>>)>>
    /\ policy = PolicyFail
    /\ branch = BranchUnset
    /\ cancelled = FALSE
    /\ stack = <<RunFrame(MainSc, "ctx")>>
    /\ ret = Nil
    /\ trace = <<>>
    /\ logger = TRUE
    /\ stdout = OsStdout /\ stderr = OsStderr
    /\ env \in {NoEnv, [x \in {"CMDER_F3"} |-> <<"sky">>]}
    /\ bucket = NoBucket /\ cells = NoBucket
    /\ NoStart

NextReq ==
    \/ runNext
    \/ Run
    \/ RunActionCall
    \/ RunActionPolicy
    \/ ExecRun
    \/ showVarRun

SpecReq == InitReq /\ [][NextReq]_vars

\* ------------------------------------------------------------ ExpandEnv
\* A text is a sequence of pieces: "$", "{", "}" or a run of letters and
\* digits.  A bucket value that is the untyped nil
NilValue == <<"nil">>

\* isShellSpecialVar and isAlphaNum of the os package, on a piece
isShellSpecialVar(p) == p = "$"
isAlphaNum(p) == p \notin {"$", "{", "}"}

\* the first i >= from with s[i] = "}", or 0
RECURSIVE CloseAt(_, _)
CloseAt(s, from) ==
    IF from > Len(s) THEN 0
    ELSE IF s[from] = "}" THEN from
    ELSE CloseAt(s, from + 1)

\* the length of the leading run of letters and digits of s
RECURSIVE NameRun(_)
NameRun(s) == IF s = <<>> \/ ~isAlphaNum(s[1]) THEN 0 ELSE 1 + NameRun(Tail(s))

\* getShellName(s) of the os package, s being what follows the "$": the
\* name and the number of pieces it takes
getShellName(s) ==
    IF s[1] = "{"
    THEN IF Len(s) > 2 /\ isShellSpecialVar(s[2]) /\ s[3] = "}"
         THEN [name |-> <<s[2]>>, w |-> 3]
         ELSE LET i == CloseAt(s, 2) IN
              IF i = 0 THEN [name |-> <<>>, w |-> 1]
              ELSE IF i = 2 THEN [name |-> <<>>, w |-> 2]
              ELSE [name |-> SubSeq(s, 2, i - 1), w |-> i]
    ELSE IF isShellSpecialVar(s[1]) THEN [name |-> <<s[1]>>, w |-> 1]
    ELSE [name |-> SubSeq(s, 1, NameRun(s)), w |-> NameRun(s)]

\* fmt.Sprint(x) of a typed bucket value
Sprint(x) == <<x[2]>>

\* a mapping that asks the environment before the bucket
mappingEnvFirst(name, b, e) ==
    LET key == IF Len(name) = 1 THEN name[1] ELSE "" IN
    IF key \in DOMAIN e THEN e[key]
    ELSE IF key \in DOMAIN b /\ b[key] # NilValue
         THEN IF KindOf(b[key]) = "string" THEN b[key] ELSE Sprint(b[key])
    ELSE <<>>

\* the mapping ExpandEnv hands to os.Expand: the bucket, then st.Env
mapping(name, b, e) ==
    LET key == IF Len(name) = 1 THEN name[1] ELSE "" IN
    IF key \in DOMAIN b /\ b[key] # NilValue
    THEN IF KindOf(b[key]) = "string" THEN b[key] ELSE Sprint(b[key])
    ELSE IF key \in DOMAIN e THEN e[key] ELSE <<>>

\* os.Expand(s, mapping)
RECURSIVE Expand(_, _, _)
Expand(s, b, e) ==
    IF s = <<>> THEN <<>>
    ELSE IF s[1] = "$" /\ Len(s) > 1
    THEN LET n == getShellName(Tail(s)) IN
         IF n.name = <<>> /\ n.w > 0
         THEN Expand(SubSeq(s, n.w + 2, Len(s)), b, e)
         ELSE IF n.name = <<>>
         THEN <<"$">> \o Expand(Tail(s), b, e)
         ELSE mapping(n.name, b, e) \o Expand(SubSeq(s, n.w + 2, Len(s)), b, e)
    ELSE <<s[1]>> \o Expand(Tail(s), b, e)

\* ExpandEnv(text, st) for a text that is a string
ExpandEnv(text, b, e) == Expand(text, b, e)

ExpandEnvA(text) == Act("expand", 0, text, <<>>)

\* got := ExpandEnv(item.Input, st)
ExpandEnvRun ==
    /\ InBody("expand", "start")
    /\ ret' = ExpandEnv(Top.a.tags, bucket, env)
    /\ stack' = SetTop([Top EXCEPT !.pc = "got"])
    /\ UNCHANGED <<scripts, policy, branch, cancelled, trace, ioState,
                   cmdState, startState>>

\* longest text, in pieces
MaxText == 5

TextPieces == {"$", "{", "}", "k1", "k2", "abc"}
Texts == UNION { [1..n -> TextPieces] : n \in 0..MaxText }

\* the State of a test item: its bucket and its Env
ExpandStates ==
    { [b |-> [x \in {"k1"} |-> <<"int64", "45">>], e |-> [x \in {"k1"} |-> <<"letters">>]],
      [b |-> [x \in {"k1"} |-> <<"int64", "45">>], e |-> [x \in {"k2"} |-> <<"letters">>]],
      [b |-> [x \in {"k1", "k2"} |-> IF x = "k1" THEN NilValue ELSE <<"ghi">>],
       e |-> [x \in {"k1"} |-> <<"letters">>]],
      [b |-> [x \in {"k2"} |-> <<"bool", "true">>], e |-> NoEnv] }

\* st := &State{Env: item.Env, bucket: item.State}
InitExpand ==
    /\ scripts = <<>>
    /\ policy = PolicyFail
    /\ branch = BranchUnset
    /\ cancelled = FALSE
    /\ \E text \in Texts : stack = <<BodyFrame(NoScript, "ctx", ExpandEnvA(text))>>
    /\ ret = Nil
    /\ trace = <<>>
    /\ logger = TRUE
    /\ stdout = OsStdout /\ stderr = OsStderr
    /\ \E s \in ExpandStates : bucket = s.b /\ env = s.e
    /\ cells = NoBucket
    /\ NoStart

NextExpand == ExpandEnvRun

SpecExpand == InitExpand /\ [][NextExpand]_vars

\* ---------------------------------------------------------------- Start
\* the capacity of the notify channel
NotifyCap == 3

\* the interrupts the process is sent
MaxInterrupts == 3

\* what run returns, when it returns
RunResults == {Nil, EOF, ErrOf(1)}

\* a once.Do that never calls its function
unlockOnceNever == UNCHANGED <<once, fin, atClose>>

\* a once.Do that calls its function every time
unlockOnceAlways ==
    /\ once' = TRUE
    /\ fin' = fin + 1
    /\ atClose' = IF fin = 0 THEN goroutines.run ELSE atClose

\* unlockOnce(): once.Do(unlock), unlock being close(fin)
unlockOnce ==
    IF once THEN UNCHANGED <<once, fin, atClose>>
    ELSE /\ once' = TRUE
         /\ fin' = fin + 1
         /\ atClose' = goroutines.run

\* a Load that finds nothing
LoadNothing(v) == Nil

\* err, ok := runErr.Load().(error): the error Start returns
Load(v) == IF v = Unset THEN Nil ELSE v

engine == <<scripts, policy, branch, stack, trace, ioState, cmdState>>

\* the operating system delivers an interrupt: signal.Notify's channel
\* takes it unless it is full
Interrupt ==
    /\ goroutines.main # "none"
    /\ sent < MaxInterrupts
    /\ sent' = sent + 1
    /\ notify' = IF notify < NotifyCap THEN notify + 1 ELSE notify
    /\ UNCHANGED <<engine, cancelled, ret, once, fin, runErr, goroutines, atClose>>

\* err := run(ctx) returns
RunFuncReturns ==
    /\ goroutines.run = "run"
    /\ \E e \in RunResults :
         goroutines' = [goroutines EXCEPT !.err = e,
                           !.run = IF e # Nil THEN "store" ELSE "unlock"]
    /\ UNCHANGED <<engine, cancelled, ret, notify, once, fin, runErr, sent, atClose>>

\* runErr.Store(err)
RunStore ==
    /\ goroutines.run = "store"
    /\ runErr' = goroutines.err
    /\ goroutines' = [goroutines EXCEPT !.run = "unlock"]
    /\ UNCHANGED <<engine, cancelled, ret, notify, once, fin, sent, atClose>>

\* the run goroutine's unlockOnce()
RunUnlock ==
    /\ goroutines.run = "unlock"
    /\ unlockOnce
    /\ goroutines' = [goroutines EXCEPT !.run = "end"]
    /\ UNCHANGED <<engine, cancelled, ret, notify, runErr, sent>>

\* select { case <-notify: case <-fin: }
StartSelect ==
    /\ goroutines.main = "select"
    /\ \/ notify > 0 /\ notify' = notify - 1
       \/ fin > 0 /\ UNCHANGED notify
    /\ goroutines' = [goroutines EXCEPT !.main = "cancel"]
    /\ UNCHANGED <<engine, cancelled, ret, once, fin, runErr, sent, atClose>>

\* cancel()
StartCancel ==
    /\ goroutines.main = "cancel"
    /\ cancelled' = TRUE
    /\ goroutines' = [goroutines EXCEPT !.main = "go"]
    /\ UNCHANGED <<engine, ret, notify, once, fin, runErr, sent, atClose>>

\* go func() { <-time.After(stopTimeout); unlockOnce() }()
StartGo ==
    /\ goroutines.main = "go"
    /\ goroutines' = [goroutines EXCEPT !.main = "wait", !.timer = "sleep"]
    /\ UNCHANGED <<engine, cancelled, ret, notify, once, fin, runErr, sent, atClose>>

\* <-time.After(stopTimeout)
TimeAfter ==
    /\ goroutines.timer = "sleep"
    /\ goroutines' = [goroutines EXCEPT !.timer = "unlock"]
    /\ UNCHANGED <<engine, cancelled, ret, notify, once, fin, runErr, sent, atClose>>

\* the timeout goroutine's unlockOnce()
TimerUnlock ==
    /\ goroutines.timer = "unlock"
    /\ unlockOnce
    /\ goroutines' = [goroutines EXCEPT !.timer = "end"]
    /\ UNCHANGED <<engine, cancelled, ret, notify, runErr, sent>>

\* <-fin
StartWait ==
    /\ goroutines.main = "wait"
    /\ fin > 0
    /\ goroutines' = [goroutines EXCEPT !.main = "load"]
    /\ UNCHANGED <<engine, cancelled, ret, notify, once, fin, runErr, sent, atClose>>

\* if err, ok := runErr.Load().(error); ok { return err }; return nil
StartReturn ==
    /\ goroutines.main = "load"
    /\ ret' = Load(runErr)
    /\ goroutines' = [goroutines EXCEPT !.main = "done"]
    /\ UNCHANGED <<engine, cancelled, notify, once, fin, runErr, sent, atClose>>

\* Start(ctx, stopTimeout, run) up to its select, the run goroutine started
InitStart ==
    /\ scripts = <<>>
    /\ policy = PolicyFail
    /\ branch = BranchUnset
    /\ cancelled = FALSE
    /\ stack = <<>>
    /\ ret = Nil
    /\ trace = <<>>
    /\ logger = TRUE
    /\ stdout = OsStdout /\ stderr = OsStderr
    /\ env = NoEnv
    /\ bucket = NoBucket /\ cells = NoBucket
    /\ notify = 0 /\ once = FALSE /\ fin = 0 /\ runErr = Unset
    /\ goroutines = [main |-> "select", run |-> "run", timer |-> "none", err |-> Nil]
    /\ sent = 0 /\ atClose = "open"

NextStart ==
    \/ Interrupt
    \/ RunFuncReturns
    \/ RunStore
    \/ RunUnlock
    \/ StartSelect
    \/ StartCancel
    \/ StartGo
    \/ TimeAfter
    \/ TimerUnlock
    \/ StartWait
    \/ StartReturn

\* The Go scheduler runs every goroutine that can run and the timer fires;
\* nothing makes run return or an interrupt arrive
SpecStart ==
    /\ InitStart /\ [][NextStart]_vars
    /\ WF_vars(RunStore) /\ WF_vars(RunUnlock)
    /\ WF_vars(StartSelect) /\ WF_vars(StartCancel) /\ WF_vars(StartGo)
    /\ WF_vars(StartWait) /\ WF_vars(StartReturn)
    /\ WF_vars(TimeAfter) /\ WF_vars(TimerUnlock)

\* ------------------------------------------- rollback triggered repeatedly
\* longest list of a script whose failures trigger rollback more than once
MaxRb == 3

UniverseRb ==
    { RollbackA(<<Work(1), Work(0)>>),
      WithPolicy(PolicyFail, Work(1)),
      Switch(Work(1), <<BranchUnset>>, <<Work(0)>>) }
ListsRb == UNION { [1..n -> UniverseRb] : n \in 1..MaxRb }

\* st := &State{Policy: p}; NewScript(a...).Run(ctx, st, nil)
InitRb ==
    /\ \E as \in ListsRb : scripts = <<NewScript(as)>>
    /\ policy \in {PolicyFail, PolicyContinue, PolicyLog}
    /\ branch = BranchUnset
    /\ cancelled = FALSE
    /\ stack = <<RunFrame(MainSc, "ctx")>>
    /\ ret = Nil
    /\ trace = <<>>
    /\ logger = TRUE
    /\ stdout = OsStdout /\ stderr = OsStderr
    /\ env = NoEnv
    /\ bucket = NoBucket /\ cells = NoBucket
    /\ NoStart

NextRb ==
    \/ runNext
    \/ Run
    \/ RunActionCall
    \/ RunActionPolicy
    \/ RunActionRollback
    \/ WorkRun
    \/ RollbackRun
    \/ WithPolicyCall
    \/ WithPolicyReturn
    \/ SwitchProbe
    \/ SwitchCase
    \/ SwitchReturn

SpecRb == InitRb /\ [][NextRb]_vars

\* ------------------------------------------------ cancellation and rollback
\* longest list of a script that is cancelled with rollback actions pending
MaxCz == 2

UniverseCz ==
    { Work(1),
      RollbackA(<<Work(1), Work(0)>>),
      DeferA(<<Work(1), Work(0)>>),
      WithPolicy(PolicyFail, Work(1)) }
ListsCz == UNION { [1..n -> UniverseCz] : n \in 1..MaxCz }

\* st := &State{Policy: p}; NewScript(a...).Run(ctx, st, nil)
InitCz ==
    /\ \E as \in ListsCz : scripts = <<NewScript(as)>>
    /\ policy \in {PolicyFail, PolicyContinue}
    /\ branch = BranchUnset
    /\ cancelled = FALSE
    /\ stack = <<RunFrame(MainSc, "ctx")>>
    /\ ret = Nil
    /\ trace = <<>>
    /\ logger = TRUE
    /\ stdout = OsStdout /\ stderr = OsStderr
    /\ env = NoEnv
    /\ bucket = NoBucket /\ cells = NoBucket
    /\ NoStart

NextCz ==
    \/ runNext
    \/ Run
    \/ RunActionCall
    \/ RunActionPolicy
    \/ RunActionRollback
    \/ WorkRun
    \/ RollbackRun
    \/ DeferRun
    \/ WithPolicyCall
    \/ WithPolicyReturn
    \/ Cancel

SpecCz == InitCz /\ [][NextCz]_vars

\* ---------------------------------------------------------- nested scripts
\* a Script handed to a script as one of its actions
ScriptA(n) == Act("script", n, <<>>, <<>>)

\* a.Run(ctx, st, sc) for a Script a: the loop of Run on a's own list
ScriptRun ==
    /\ InBody("script", "start")
    /\ stack' = Append(Pop, RunFrame(Top.a.n, Top.ctx))
    /\ UNCHANGED <<scripts, policy, branch, cancelled, ret, trace, ioState,
                   cmdState, startState>>

\* longest list of the enclosing script, and how often its caller runs it
MaxNest == 2
MaxRuns == 2

UniverseNest ==
    { ScriptA(ChildSc), WithStdCombined(StdWriter("w1"), ChildSc), Work(1) }
ListsNest == UNION { [1..n -> UniverseNest] : n \in 1..MaxNest }
ChildLists ==
    { <<RollbackA(<<Work(1), Work(0)>>), Work(1)>>, <<Work(1), Work(0)>> }

\* the caller of Run, once Run has returned: sc.Add(a...) or nothing, then
\* sc.Run(ctx, st, nil) again.  The history entry holds the cursor (pos),
\* the length of the list before the Add (len) and what was added (a)
RunAgain ==
    /\ Done
    /\ Cardinality({i \in 1..Len(trace) : trace[i].ev = "run"}) < MaxRuns - 1
    /\ \E as \in {<<>>, <<Work(1)>>} :
         /\ scripts' = Add(scripts, MainSc, as)
         /\ trace' = Append(trace, Event("run", MainSc, scripts[MainSc].at,
                                         Act("run", Len(as), <<>>, as), ret, policy,
                                         cancelled, RbLen(MainSc)))
    /\ stack' = <<RunFrame(MainSc, "ctx")>>
    /\ UNCHANGED <<policy, branch, cancelled, ret, ioState, cmdState, startState>>

\* child := NewScript(b...); st := &State{Policy: p}; sc := NewScript(a...);
\* sc.Run(ctx, st, nil)
InitNest ==
    /\ \E as \in ListsNest, bs \in ChildLists :
         scripts = <<NewScript(as), NewScript(bs)>>
    /\ policy \in {PolicyFail, PolicyContinue}
    /\ branch = BranchUnset
    /\ cancelled = FALSE
    /\ stack = <<RunFrame(MainSc, "ctx")>>
    /\ ret = Nil
    /\ trace = <<>>
    /\ logger = TRUE
    /\ stdout = OsStdout /\ stderr = OsStderr
    /\ env = NoEnv
    /\ bucket = NoBucket /\ cells = NoBucket
    /\ NoStart

NextNest ==
    \/ runNext
    \/ Run
    \/ RunActionCall
    \/ RunActionPolicy
    \/ RunActionRollback
    \/ WorkRun
    \/ RollbackRun
    \/ ScriptRun
    \/ WithStdCombinedCall
    \/ WithStdCombinedReturn
    \/ RunAgain

SpecNest == InitNest /\ [][NextNest]_vars

\* ------------------------------------------- actions queued behind Exec
\* how many actions the caller queues behind the resolver action
MaxQueue == 2

QueueUniverse == {SetBranch(BranchTrue), Work(1)}
Queues == UNION { [1..n -> QueueUniverse] : n \in 1..MaxQueue }
QueueArgs ==
    { <<>>, << <<"run1">> >>, << <<"run2">> >>, << <<"run2">>, <<"-", "tf">> >>,
      << <<"run1">>, <<"run1b">> >>, << <<"xyz">> >> }

\* sc := NewScript(cmd.Exec(args), q...); sc.Run(ctx, st, nil)
InitQueue ==
    /\ \E args \in QueueArgs, q \in Queues :
         scripts = <<NewScript(<<ExecA(ArgsCmder, args)>> \o q)>>
    /\ policy \in {PolicyFail, PolicyContinue}
    /\ branch = BranchUnset
    /\ cancelled = FALSE
    /\ stack = <<RunFrame(MainSc, "ctx")>>
    /\ ret = Nil
    /\ trace = <<>>
    /\ logger = TRUE
    /\ stdout = OsStdout /\ stderr = OsStderr
    /\ env = NoEnv
    /\ bucket = NoBucket /\ cells = NoBucket
    /\ NoStart

NextQueue ==
    \/ runNext
    \/ Run
    \/ RunActionCall
    \/ RunActionPolicy
    \/ ExecRun
    \/ showVarRun
    \/ SetBranchRun
    \/ WorkRun

SpecQueue == InitQueue /\ [][NextQueue]_vars

\* ======================================================== the properties
\* indices of the history entries of one kind
Evs(ev) == {i \in 1..Len(trace) : trace[i].ev = ev}

\* the rollback script of the main script (0 while none was created)
MainRb == scripts[MainSc].rollback

\* position p of script sc was started by Run
Started(sc, p) == \E i \in Evs("start") : trace[i].sc = sc /\ trace[i].pos = p

\* failures of actions of the main list, as the RunAction of runNext saw them
TopFails == {i \in Evs("fail") : trace[i].sc = MainSc /\ trace[i].pos > 0}

\* a policy under which a failure triggers rollback
Triggers(pol) == ~HasBit(pol, PolicyContinue) /\ ~HasBit(pol, PolicySkipRollback)

\* rollback actions started, and rollback actions that failed
RbStarts == {i \in Evs("start") : MainRb # 0 /\ trace[i].sc = MainRb}
RbFails == {i \in Evs("fail") : MainRb # 0 /\ trace[i].sc = MainRb}

\* err is reported by the error e: e is err or "err, rollback failed: ..."
Reports(e, err) == Len(e) >= Len(err) /\ SubSeq(e, 1, Len(err)) = err

\* C1: under the fail-fast policy, when the action at a position of the list
\* fails, no action at a later position is ever started and Run returns
\* that action's error (alone or followed by the rollback failure).
C1_FailFast ==
    \A i \in TopFails :
        trace[i].pol = PolicyFail =>
            /\ \A p \in trace[i].pos + 1 .. Len(scripts[MainSc].list) : ~Started(MainSc, p)
            /\ Done => (ret # Nil /\ Reports(ret, trace[i].err))

\* C2 as stated: with the Continue bit set, the error of a failing action of
\* the list is never the result of Run and every later action still runs.
C2_ContinueAlwaysRunsRest ==
    \A i \in TopFails :
        (HasBit(trace[i].pol, PolicyContinue) /\ Done) =>
            /\ ret # trace[i].err
            /\ \A p \in trace[i].pos + 1 .. Len(scripts[MainSc].list) : Started(MainSc, p)

\* C2 amended: with the Continue bit set, Run never returns the error of a
\* failing action (it returns nil or the cancellation error), and every
\* action after the failing one still runs unless Run returns the
\* cancellation error.
C2_Continue ==
    \A i \in TopFails :
        (HasBit(trace[i].pol, PolicyContinue) /\ Done) =>
            /\ ret \in {Nil, Canceled}
            /\ ret = Nil =>
                 \A p \in trace[i].pos + 1 .. Len(scripts[MainSc].list) : Started(MainSc, p)

C2_Witness ==
    /\ Done /\ ret = Nil
    /\ \E i \in TopFails :
         /\ HasBit(trace[i].pol, PolicyContinue)
         /\ trace[i].err # Nil
         /\ trace[i].pos < Len(scripts[MainSc].list)
         /\ Started(MainSc, trace[i].pos + 1)

\* failures seen by a RunAction of the main script under a policy that
\* triggers rollback, with rollback actions registered at that moment
Triggered == {i \in Evs("fail") : /\ trace[i].sc = MainSc
                                   /\ Triggers(trace[i].pol)
                                   /\ trace[i].rb > 0}

\* the rollback actions started so far are positions 1, 2, ... of the
\* rollback list, each once, in that order
RbInOrder ==
    \A i \in RbStarts : trace[i].pos = Cardinality({j \in RbStarts : j <= i})

\* C3: after a failure under a policy with neither SkipRollback nor
\* Continue, every rollback action registered by then has run exactly once,
\* in registration order, when Run returns.
C3_EveryRollbackRuns ==
    Done =>
        \A i \in Triggered :
            /\ RbInOrder
            /\ \A p \in 1..trace[i].rb : Started(MainRb, p)

\* failures of leaf actions run by the main script
LeafFails == {i \in Evs("fail") : trace[i].sc = MainSc /\ trace[i].a.k = "work"}

\* C4: a failure under the SkipRollback bit runs no rollback action, whether
\* the bit is in State.Policy for the run or put around the single action by
\* WithPolicy: while every leaf failure so far happened under the bit (and
\* nothing was cancelled), no rollback action has been started.
C4_SkipRollback ==
    (/\ ~cancelled
     /\ LeafFails # {}
     /\ \A i \in LeafFails : HasBit(trace[i].pol, PolicySkipRollback))
    => RbStarts = {}

\* C5: if a rollback action of the script has run, the script starts no
\* forward action afterwards and its Run returns a non-nil error.
C5_RollbackEndsRun ==
    \A i \in RbStarts :
        /\ \A j \in Evs("start") : (trace[j].sc = MainSc) => j < i
        /\ Done => ret # Nil

\* the error e carries the rollback failure r: "..., rollback failed: r"
ReportsRollback(e, r) ==
    \E k \in 1..Len(e) :
        /\ k + Len(r) <= Len(e)
        /\ SubSeq(e, k, k + Len(r)) = <<TokRollbackFailed>> \o r

\* C6: when a failing action of the list triggers rollback, the error Run
\* returns is the action's error unchanged if no rollback action failed,
\* and otherwise reports the action's error and the rollback error together.
C6_BothErrorsReported ==
    Done =>
        \A i \in TopFails :
            Triggers(trace[i].pol) =>
                LET rbf == {j \in RbFails : j > i} IN
                /\ rbf = {} => ret = trace[i].err
                /\ \A j \in rbf :
                     /\ Reports(ret, trace[i].err)
                     /\ ReportsRollback(ret, trace[j].err)

\* RunAction calls that have not yet reached the cancellation check
AtCheck(sc, p) ==
    \E k \in 1..Len(stack) :
        /\ stack[k].f = "RunAction" /\ stack[k].pc = "check"
        /\ stack[k].sc = sc /\ stack[k].pos = p

\* C7: rollback runs under a context that is never cancelled: every rollback
\* position the cursor has taken was started, cancelled or not, and after a
\* rollback-triggering failure that found the token fired every registered
\* rollback action is started unless a rollback action fails.
C7_RollbackNotCancelled ==
    /\ MainRb # 0 =>
         \A p \in 1..scripts[MainRb].at : Started(MainRb, p) \/ AtCheck(MainRb, p)
    /\ Done =>
         \A i \in Triggered :
            (trace[i].cz /\ RbFails = {}) => \A p \in 1..trace[i].rb : Started(MainRb, p)

C7_Witness ==
    /\ Done /\ cancelled
    /\ \E t \in Triggered :
         /\ trace[t].cz
         /\ trace[t].rb >= 2
         /\ \A p \in 1..trace[t].rb :
              \E i \in RbStarts : i > t /\ trace[i].pos = p /\ trace[i].cz

\* C8: once the token has fired no action of the forward script is started,
\* and when the RunAction of runNext returns without invoking its action
\* (the cursor took a position that was never started), Run returns the
\* cancellation error, under every policy.
C8_CancelStopsRun ==
    /\ \A i \in Evs("start") : trace[i].sc = MainSc => ~trace[i].cz
    /\ (Done /\ \E p \in 1..scripts[MainSc].at : ~Started(MainSc, p)) => ret = Canceled

C8_Witness ==
    /\ Done /\ ret = Canceled
    /\ HasBit(policy, PolicyContinue)
    /\ TopFails # {}
    /\ ~Started(MainSc, scripts[MainSc].at)
    /\ scripts[MainSc].at < Len(scripts[MainSc].list)

\* each list position of each script was started at most once
OncePerPosition ==
    \A i, j \in Evs("start") :
        (trace[i].sc = trace[j].sc /\ trace[i].pos = trace[j].pos /\ trace[i].pos > 0)
            => i = j

CursorInRange ==
    \A s \in 1..Len(scripts) : scripts[s].at >= 0 /\ scripts[s].at <= Len(scripts[s].list)

\* one step keeps every script, never moves a cursor back and changes a
\* list only by appending to it
CursorStep ==
    /\ Len(scripts') >= Len(scripts)
    /\ \A s \in 1..Len(scripts) :
         /\ scripts'[s].at >= scripts[s].at
         /\ Len(scripts'[s].list) >= Len(scripts[s].list)
         /\ SubSeq(scripts'[s].list, 1, Len(scripts[s].list)) = scripts[s].list

\* C9: the cursor stays within 0..length(list), never decreases, the list is
\* only extended at its end, and Run executes each position at most once.
C9_Cursor == [](CursorInRange /\ OncePerPosition) /\ [][CursorStep]_vars

C9_Witness ==
    /\ Done
    /\ scripts[MainSc].at = Len(scripts[MainSc].list)
    /\ \E i \in Evs("start") : trace[i].sc = MainSc /\ trace[i].a.k = "add"
    /\ Len(scripts[MainSc].list) > MaxLen
    /\ Started(MainSc, Len(scripts[MainSc].list))

\* C10: Run returns success only when the cursor has reached the end of the
\* grown list, every position of it having been executed once, in order.
C10_RunsToTheEnd ==
    (Done /\ ret = Nil) =>
        /\ scripts[MainSc].at = Len(scripts[MainSc].list)
        /\ \A p \in 1..Len(scripts[MainSc].list) : Started(MainSc, p)

\* ------------------------------------------------------------------ Defer
\* the Defer actions the main script has run
DeferStarts == {d \in Evs("start") : trace[d].sc = MainSc /\ trace[d].a.k = "defer"}

\* Defer run at history entry d put its k-th action at this position of
\* the forward list, and at this position of the rollback list
FwdPos(d, k) == trace[d].len + k
RbPos(d, k) == trace[d].rb + k

\* history entries where position p of script sc was started
StartsOf(sc, p) == {i \in Evs("start") : trace[i].sc = sc /\ trace[i].pos = p}

\* C11: an action handed to Defer sits at the position of the forward list
\* where it was appended and runs there at most once; every rollback
\* triggered after the Defer runs it once more; and when the rollback has
\* run it before its forward position was reached, it does not run forward.
C11_DeferRunsTwice ==
    Done =>
        \A d \in DeferStarts : \A k \in 1..Len(trace[d].a.sub) :
            /\ scripts[MainSc].list[FwdPos(d, k)] = trace[d].a.sub[k]
            /\ Cardinality(StartsOf(MainSc, FwdPos(d, k))) <= 1
            /\ \A t \in Triggered :
                 t > d => Cardinality(StartsOf(MainRb, RbPos(d, k))) = 1
            /\ \A r \in StartsOf(MainRb, RbPos(d, k)) :
                 \A f \in StartsOf(MainSc, FwdPos(d, k)) : f < r

\* C12: a deferred action always executes: when Run has returned, every
\* action handed to a Defer that ran was started at its forward position or
\* by the rollback, whatever Run returns.
C12_DeferAlwaysRuns ==
    Done =>
        \A d \in DeferStarts : \A k \in 1..Len(trace[d].a.sub) :
            StartsOf(MainSc, FwdPos(d, k)) \cup StartsOf(MainRb, RbPos(d, k)) # {}

\* ----------------------------------------------------------------- Switch
\* failures of probes as their RunAction saw them, and cases started
ProbeFails == {i \in Evs("fail") : trace[i].by = "probe"}
CaseStarts == {i \in Evs("start") : trace[i].by = "case"}

\* the history entry where Run started the list action inside which entry i
\* happened
Owner(i) ==
    CHOOSE j \in Evs("start") :
        /\ j < i /\ trace[j].sc = MainSc /\ trace[j].pos > 0
        /\ \A h \in Evs("start") :
             (h < i /\ trace[h].sc = MainSc /\ trace[h].pos > 0) => h <= j

\* failures of the Switch started at history entry j
SwitchFails(j) ==
    {f \in Evs("fail") : /\ f > j /\ trace[f].sc = MainSc
                          /\ trace[f].pos = trace[j].pos /\ trace[f].a.k = "switch"}

\* C13 as stated: under every policy, when the probe of a Switch fails no
\* case of that Switch is run and the Switch returns the probe's failure.
C13_ProbeFailureAnyPolicy ==
    Done =>
        \A i \in ProbeFails :
            /\ \A c \in CaseStarts : Owner(c) # Owner(i)
            /\ \E f \in SwitchFails(Owner(i)) : Reports(trace[f].err, trace[i].err)

\* C13 amended: when the probe fails under a policy without the Continue
\* bit, no case of that Switch is run and the Switch returns the probe's
\* failure; under a policy with the Continue bit RunAction suppresses the
\* probe's failure and the Switch does not return it.
C13_ProbeFailure ==
    Done =>
        \A i \in ProbeFails :
            IF HasBit(trace[i].pol, PolicyContinue)
            THEN \A f \in SwitchFails(Owner(i)) : ~Reports(trace[f].err, trace[i].err)
            ELSE /\ \A c \in CaseStarts : Owner(c) # Owner(i)
                 /\ \E f \in SwitchFails(Owner(i)) : Reports(trace[f].err, trace[i].err)

C13_Witness ==
    /\ Done
    /\ \E i \in ProbeFails :
         /\ trace[i].pol = PolicyFail
         /\ trace[i].rb > 0
         /\ \E f \in SwitchFails(Owner(i)) : Reports(trace[f].err, trace[i].err)

\* the Switch actions the main script has run, and the probes started
SwitchStarts == {j \in Evs("start") : trace[j].sc = MainSc /\ trace[j].a.k = "switch"}
ProbeStarts == {i \in Evs("start") : trace[i].by = "probe"}

\* the tag the Switch started at history entry j reads after its probe
TagRead(j) ==
    IF trace[j].a.sub[1].k = "branch" THEN trace[j].a.sub[1].n ELSE BranchUnset

\* the probe of the Switch started at entry j ran and succeeded, and the map
\* has no case for the tag read
Missed(j) ==
    /\ \E i \in ProbeStarts : Owner(i) = j
    /\ \A i \in ProbeFails : Owner(i) # j
    /\ \A k \in 1..Len(trace[j].a.tags) : trace[j].a.tags[k] # TagRead(j)

\* C14: the tag is unset again when the selected case starts and when the
\* probe of any later Switch starts, so no Switch reads a tag set by the
\* probe of an earlier one; a Switch with no case for the tag read runs
\* nothing and succeeds.
C14_BranchReset ==
    /\ \A c \in CaseStarts : trace[c].br = BranchUnset
    /\ \A i \in ProbeStarts : trace[i].br = BranchUnset
    /\ Done =>
         \A j \in SwitchStarts :
            Missed(j) => /\ \A c \in CaseStarts : Owner(c) # j
                         /\ SwitchFails(j) = {}

C14_Witness ==
    /\ Done /\ ret = Nil
    /\ \E j \in SwitchStarts :
         /\ Missed(j)
         /\ TagRead(j) = BranchTrue
         /\ \E c \in CaseStarts : Owner(c) > j /\ trace[c].br = BranchUnset

\* ------------------------------------------------------------------- Log
\* failures seen under a policy with the Log bit
LogFails == {i \in Evs("fail") : HasBit(trace[i].pol, PolicyLog)}

\* the RunAction that runNext called has just returned to the loop of the
\* top-level Run, and history entry i is the failure of its action
ReturnedToRun(i) ==
    /\ Len(stack) = 1 /\ Top.f = "Run" /\ Top.pc = "ret"
    /\ i \in TopFails /\ trace[i].pos = scripts[MainSc].at

\* C16: a failure under a policy with the Log bit is handed to the error
\* logger when there is one, and to nobody when there is none; logging does
\* not suppress it: without the Continue bit RunAction still returns the
\* error and the rollback is still run.
C16_LogDoesNotSuppress ==
    /\ \A i \in LogFails :
         IF logger
         THEN /\ i < Len(trace)
              /\ trace[i + 1] = [trace[i] EXCEPT !.ev = "log"]
         ELSE Evs("log") = {}
    /\ \A i \in LogFails :
         (ReturnedToRun(i) /\ ~HasBit(trace[i].pol, PolicyContinue)) =>
            /\ Reports(ret, trace[i].err)
            /\ (trace[i].rb > 0 /\ ~HasBit(trace[i].pol, PolicySkipRollback))
                 => Started(MainRb, 1)

C16_Witness ==
    /\ logger
    /\ \E i \in LogFails :
         /\ ReturnedToRun(i)
         /\ trace[i].pol = PolicyLog
         /\ trace[i].rb > 0
         /\ trace[i + 1].ev = "log"
         /\ ret = trace[i].err
         /\ \E r \in RbStarts : r > i

\* ---------------------------------------------------------- save/restore
\* C15: WithPolicy, WithStdOutErr and WithStdCombined put back what they
\* replaced, whether the wrapped action or child script succeeded or
\* failed: back in the loop of the top-level Run, and when it has returned,
\* State.Policy, State.Stdout and State.Stderr are what they were at the
\* start; and the wrapped action ran with the substituted value: the action
\* of WithPolicy(p, a) under p, the child script's actions with Stdout and
\* Stderr the writers of the arguments given for them.
C15_SaveRestore ==
    /\ Len(stack) <= 1 =>
         /\ trace # <<>> => policy = trace[1].pol
         /\ stdout = OsStdout /\ stderr = OsStderr
    /\ \A i \in Evs("start") :
         (trace[i].sc = MainSc /\ trace[i].pos = 0 /\ trace[Owner(i)].a.k = "with")
            => trace[i].pol = trace[Owner(i)].a.n
    /\ \A i \in Evs("start") :
         trace[i].sc = ChildSc =>
            LET w == trace[Owner(i)].a IN
            /\ w.k = "stdouterr" =>
                 /\ trace[i].out = outputSetupPre("stdout", w.tags[1])
                 /\ trace[i].errw = outputSetupPre("stderr", w.tags[2])
            /\ w.k = "stdcombined" =>
                 /\ trace[i].out = outputSetupPre("std", w.tags[1])
                 /\ trace[i].errw = outputSetupPre("std", w.tags[1])

\* ------------------------------------------------------------ the resolver
\* the function of c.Exec(args) has just returned to RunAction
AfterExec == Running /\ Top.f = "RunAction" /\ Top.pc = "called" /\ Top.a.k = "exec"

\* the string a is "-name" for a flag name
IsFlagTok(a) == Len(a) = 2 /\ a[1] = "-" /\ a[2] \notin {"-", "="}

\* the "-name value" pairs an argument vector starts with, as <<name, value>>
RECURSIVE Explicit(_)
Explicit(args) ==
    IF Len(args) >= 2 /\ IsFlagTok(args[1])
    THEN <<<<args[1][2], args[2]>>>> \o Explicit(Tail(Tail(args)))
    ELSE <<>>

\* the positions in Explicit(args) that give flag name its value
Given(args, name) == {k \in 1..Len(Explicit(args)) : Explicit(args)[k][1] = name}

\* the bucket value of the string vs for the flag fl
Stored(fl, vs) == IF InitType(fl) = FlagInt64 THEN <<"int64">> \o vs ELSE vs

\* the environment gives the flag fl a value
FromEnv(fl) == fl.env # "" /\ fl.env \in DOMAIN env /\ env[fl.env] # <<>>

\* C17: after a successful resolution at a node each flag's bucket value
\* is the explicit argument if one was given, else the value of its
\* environment variable if that is present and not empty, else its default;
\* with none of the three the key is absent.
C17_Precedence ==
    (AfterExec /\ ret = Nil) =>
        LET c == Commands[Top.a.n]
            args == Top.a.tags
        IN  \A i \in 1..Len(c.flags) :
                LET fl == c.flags[i]
                    g == Given(args, fl.name)
                IN  IF g # {}
                    THEN /\ fl.name \in DOMAIN bucket
                         /\ \E k \in g : /\ \A h \in g : h <= k
                                          /\ bucket[fl.name] = Stored(fl, Explicit(args)[k][2])
                    ELSE IF FromEnv(fl)
                    THEN fl.name \in DOMAIN bucket /\ bucket[fl.name] = Stored(fl, env[fl.env])
                    ELSE IF fl.hasdef
                    THEN fl.name \in DOMAIN bucket /\ bucket[fl.name] = fl.def
                    ELSE fl.name \notin DOMAIN bucket

\* "-f3 box" with CMDER_F3=sky: f3 is box, f1 its default, n absent
C17_Witness ==
    /\ AfterExec /\ ret = Nil
    /\ Top.a = ExecA(Cmder, << <<"-", "f3">>, <<"box">> >>)
    /\ FromEnv(Commands[Cmder].flags[2])
    /\ bucket["f3"] = <<"box">> /\ bucket["f1"] = <<"ghi">>
    /\ "n" \notin DOMAIN bucket

\* C18: an argument vector that gives the same flag an explicit value more
\* than once is rejected, whether or not the environment gave the flag a
\* value.
C18_SecondExplicitRejected ==
    AfterExec =>
        \A i \in 1..Len(Commands[Top.a.n].flags) :
            Cardinality(Given(Top.a.tags, Commands[Top.a.n].flags[i].name)) >= 2
                => ret # Nil

\* the argument vector is "-f1 a -f2 b" for two distinct flags of c
TwoFlags(c, args) ==
    /\ Len(args) = 4 /\ Len(Explicit(args)) = 2
    /\ Explicit(args)[1][1] # Explicit(args)[2][1]
    /\ \A k \in 1..2 : FlagIndex(c, Explicit(args)[k][1]) # 0

\* "-f2 b -f1 a" for "-f1 a -f2 b"
Swapped(args) == <<args[3], args[4], args[1], args[2]>>

\* C19 as stated: for two distinct flags and any two values, "-f1 a -f2 b"
\* and "-f2 b -f1 a" leave the same bucket and have the same outcome.
C19_OrderAnyValues ==
    (AfterExec /\ Top.a.n = Cmder /\ TwoFlags(Commands[Cmder], Top.a.tags)) =>
        LET r == Exec(Commands[Cmder], Swapped(Top.a.tags), env, NoBucket) IN
        /\ bucket = r.b
        /\ ret = r.err

\* C19 amended: the two orders both succeed or both fail, and when they
\* succeed they leave the same bucket.
C19_OrderOnSuccess ==
    (AfterExec /\ Top.a.n = Cmder /\ TwoFlags(Commands[Cmder], Top.a.tags)) =>
        LET r == Exec(Commands[Cmder], Swapped(Top.a.tags), env, NoBucket) IN
        /\ (ret = Nil) <=> (r.err = Nil)
        /\ ret = Nil => bucket = r.b

C19_Witness ==
    /\ AfterExec /\ ret = Nil
    /\ Top.a = ExecA(Cmder, << <<"-", "f1">>, <<"box">>, <<"-", "n">>, <<"7">> >>)
    /\ bucket["f1"] = <<"box">> /\ bucket["n"] = <<"int64", "7">>
    /\ bucket = Exec(Commands[Cmder], Swapped(Top.a.tags), env, NoBucket).b

\* the first string of args behind the "-name value" pairs is the name of
\* a child of c: the position of that string (0 if there is none)
DispatchAt(c, args) ==
    LET p == 2 * Len(Explicit(args)) + 1 IN
    IF p <= Len(args) /\ CmdLookup(c, args[p]) # 0 THEN p ELSE 0

\* history entries where the Action of command c was started
ShowStarts(c) == {i \in Evs("start") : trace[i].a = showVar(c)}

\* C20: when a string names a child command, the parent's function gives
\* its unsupplied flags their defaults, appends the child's Exec for the
\* remaining strings to the running script and returns, the child's flags
\* still untouched; the child's environment fallbacks, defaults and
\* positional arguments are in the bucket when its Action runs, which is
\* after the appended Exec was taken from the list.
C20_LazyDispatch ==
    /\ (AfterExec /\ Top.a.n = Cmder /\ DispatchAt(Commands[Cmder], Top.a.tags) # 0
        /\ \A k \in 1..Len(Explicit(Top.a.tags)) :
              Explicit(Top.a.tags)[k][1] \in {"f1", "f3"}
        /\ \A i \in 1..2 : Cardinality(Given(Top.a.tags, Commands[Cmder].flags[i].name)) <= 1)
       => LET p == DispatchAt(Commands[Cmder], Top.a.tags) IN
          /\ ret = Nil
          /\ "f1" \in DOMAIN bucket /\ "f3" \in DOMAIN bucket
          /\ "c1" \notin DOMAIN bucket /\ "args" \notin DOMAIN bucket
          /\ scripts[MainSc].at = 1
          /\ scripts[MainSc].list =
                <<Top.a, ExecA(Run2, SubSeq(Top.a.tags, p + 1, Len(Top.a.tags)))>>
    /\ \A i \in ShowStarts(Run2) :
          /\ trace[i].pos = 3
          /\ \E j \in Evs("start") : j < i /\ trace[j].pos = 2 /\ trace[j].a.n = Run2
                                       /\ trace[j].a.k = "exec"
                                       /\ "c1" \notin DOMAIN trace[j].bkt
          /\ "c1" \in DOMAIN trace[i].bkt
          /\ trace[i].bkt["c1"] = (IF FromEnv(Commands[Run2].flags[1]) THEN <<"sky">> ELSE <<"dv">>)

\* "-f1 box run2 7": run2's Action sees f1 = box and the arguments [7]
C20_Witness ==
    /\ Done /\ ret = Nil
    /\ scripts[MainSc].list[1] = ExecA(Cmder, << <<"-", "f1">>, <<"box">>, <<"run2">>, <<"7">> >>)
    /\ \E i \in ShowStarts(Run2) :
          /\ trace[i].bkt["f1"] = <<"box">>
          /\ trace[i].bkt["args"] = << <<"7">> >>
          /\ trace[i].bkt["c1"] = <<"sky">>

\* ------------------------------------------------- arguments and errors
\* the strings of args from position p on
From(args, p) == SubSeq(args, p, Len(args))

\* the "-name value" pairs args starts with each name a flag of c that
\* takes its value from the next string, no flag twice
PairsOf(c, args) ==
    \A k \in 1..Len(Explicit(args)) :
        /\ FlagIndex(c, Explicit(args)[k][1]) # 0
        /\ spaceValue(InitType(c.flags[FlagIndex(c, Explicit(args)[k][1])]))
        /\ Cardinality(Given(args, Explicit(args)[k][1])) = 1

\* the position of the first string behind the "-name value" pairs
Behind(args) == 2 * Len(Explicit(args)) + 1

\* the string a does not start with a dash
Plain(a) == a # <<>> /\ a[1] # "-"

\* the script the resolver runs in received the action a last
AppendedLast(a) ==
    LET l == scripts[Top.sc].list IN l # <<>> /\ l[Len(l)] = a

\* the flags of c that the "-name value" pairs of args do not name have
\* their defaults in the bucket, or no entry
RestUnparsed(c, args) ==
    \A i \in 1..Len(c.flags) :
        LET fl == c.flags[i] IN
        Given(args, fl.name) = {} =>
            IF fl.hasdef
            THEN fl.name \in DOMAIN bucket /\ bucket[fl.name] = InitDefault(fl)
            ELSE fl.name \notin DOMAIN bucket

\* C21: at a node without children the first string that does not start
\* with a dash and all strings after it become the bucket's "args" list; at
\* any node the strings after a bare "--" become the "args" list; in both
\* cases no later string is parsed as a flag, and a node that has an Action
\* has it appended to the script.
C21_Positional ==
    (AfterExec /\ PairsOf(Commands[Top.a.n], Top.a.tags)
               /\ Behind(Top.a.tags) <= Len(Top.a.tags)) =>
        LET c == Commands[Top.a.n]
            args == Top.a.tags
            p == Behind(args)
            positional(list) ==
                /\ "args" \in DOMAIN bucket /\ bucket["args"] = list
                /\ RestUnparsed(c, args)
                /\ c.action # NoAct => ret = Nil /\ AppendedLast(c.action)
        IN  /\ (c.commands = <<>> /\ Plain(args[p])) => positional(From(args, p))
            /\ args[p] = <<"-", "-">> => positional(From(args, p + 1))

\* "run1 -- xyz -f1": run1 has a child, its Action gets [xyz -f1]
C21_Witness ==
    /\ AfterExec /\ ret = Nil
    /\ Top.a = ExecA(Run1, << <<"-", "-">>, <<"xyz">>, <<"-", "f1">> >>)
    /\ bucket["args"] = << <<"xyz">>, <<"-", "f1">> >>
    /\ bucket["f1"] = <<"ghi">>
    /\ AppendedLast(showVar(Run1))

\* the usage error the strings args call for at the node c, Nil if none:
\* behind the "-name value" pairs comes a flag c does not declare, or a
\* plain string that names no child of a node with children, or nothing
\* (or the positional strings) at a node without Action
UsageCase(c, args) ==
    LET p == Behind(args) IN
    IF p <= Len(args) /\ IsFlagTok(args[p]) /\ FlagIndex(c, args[p][2]) = 0
    THEN ErrInvalidFlag
    ELSE IF p <= Len(args) /\ Plain(args[p]) /\ c.commands # <<>> /\ CmdLookup(c, args[p]) = 0
    THEN ErrInvalidCommand
    ELSE IF c.action = NoAct /\ (p > Len(args) \/ args[p] = <<"-", "-">>
                                 \/ (Plain(args[p]) /\ c.commands = <<>>))
    THEN ErrIncorrectCommand
    ELSE Nil

\* C22: the function of c.Exec(args) returns the usage error for an
\* undeclared flag, for a string that names no child, and for a node
\* without Action, whether it is run by a script or directly with a nil
\* Script.
C22_UsageErrors ==
    [][(ExecRun /\ PairsOf(Commands[Top.a.n], Top.a.tags)
                /\ UsageCase(Commands[Top.a.n], Top.a.tags) # Nil)
          => (ret' = UsageCase(Commands[Top.a.n], Top.a.tags) /\ ret' \in ErrUsage)]_vars

\* C23: every error the function of c.Exec(args) returns to the script
\* that runs it is of type ErrUsage.
C23_AlwaysUsage == (AfterExec /\ ret # Nil) => ret \in ErrUsage

\* failures of resolvers that returned a usage error
UsageFails == {i \in Evs("fail") : trace[i].a.k = "exec" /\ trace[i].err \in ErrUsage}

\* C24: after a resolver run by a script returned a usage error, no
\* rollback action registered on that script is started, whatever the
\* policy.
C24_UsageNoRollback ==
    \A i \in UsageFails : \A j \in RbStarts : j < i

\* the flag of c the string a names is declared and not a bool
ValueFlag(c, a) ==
    /\ IsFlagTok(a) /\ FlagIndex(c, a[2]) # 0
    /\ InitType(c.flags[FlagIndex(c, a[2])]) # FlagBool

\* args is "-name value" pairs for flags that are not bool, and then one
\* more such flag as the last string
Dangling(c, args) ==
    /\ Len(args) = Behind(args)
    /\ ValueFlag(c, args[Len(args)])
    /\ \A k \in 1..Len(Explicit(args)) :
          FlagIndex(c, Explicit(args)[k][1]) # 0 => ValueFlag(c, args[2 * k - 1])

\* failures of resolvers
ExecFails == {i \in Evs("fail") : trace[i].a.k = "exec"}

\* the history entry of the call of the action RunAction has just run
LastStart == CHOOSE i \in Evs("start") : \A j \in Evs("start") : j <= i

\* C25: a flag that takes a value and is the last string, without "=",
\* makes the resolver fail; and a resolver that fails leaves the list of its
\* script as it found it, so that no Action of a command and no resolver of
\* a child is started after the failure.
C25_FailureAppendsNothing ==
    /\ (AfterExec /\ Dangling(Commands[Top.a.n], Top.a.tags)) => ret # Nil
    /\ (AfterExec /\ ret # Nil) => Len(scripts[Top.sc].list) = trace[LastStart].len
    /\ \A i \in ExecFails : \A j \in Evs("start") :
          trace[j].a.k \in {"show", "exec"} => j < i

\* "-f1 xyz -f1" under PolicyContinue: the run goes on and finds nothing
C25_Witness ==
    /\ Done /\ policy = PolicyContinue /\ ret = Nil
    /\ scripts # <<>>
    /\ scripts[MainSc].list =
          <<ExecA(ArgsCmder, << <<"-", "f1">>, <<"xyz">>, <<"-", "f1">> >>)>>
    /\ \E i \in ExecFails : trace[i].err = ErrExpectedValue
    /\ bucket["f1"] = <<"xyz">>

\* the string a is "-name" for a bool flag of c
BoolFlag(c, a) ==
    /\ IsFlagTok(a) /\ FlagIndex(c, a[2]) # 0
    /\ InitType(c.flags[FlagIndex(c, a[2])]) = FlagBool

\* C26: a bool flag given as "-name" is true in the bucket and the string
\* after it is parsed for what it is (a positional argument, "--", or a flag
\* the node does not declare); any other flag given as "-name" has the next
\* string as its value, whatever that string starts with, and the string
\* after that one is parsed afresh (a child's name dispatches to the child).
C26_BoolTakesNoValue ==
    AfterExec =>
        LET c == Commands[Top.a.n]
            args == Top.a.tags
        IN  /\ (args # <<>> /\ BoolFlag(c, args[1])) =>
                 /\ bucket[args[1][2]] = <<"bool", "true">>
                 /\ (Len(args) >= 2 /\ Plain(args[2]) /\ c.commands = <<>>) =>
                        (ret = Nil /\ bucket["args"] = From(args, 2))
                 /\ (Len(args) >= 2 /\ args[2] = <<"-", "-">>) =>
                        (ret = Nil /\ bucket["args"] = From(args, 3))
                 /\ (Len(args) >= 2 /\ IsFlagTok(args[2]) /\ FlagIndex(c, args[2][2]) = 0) =>
                        ret = ErrInvalidFlag
            /\ (Len(args) >= 2 /\ ValueFlag(c, args[1])) =>
                 /\ bucket[args[1][2]] = args[2]
                 /\ (Len(args) >= 3 /\ CmdLookup(c, args[3]) # 0) =>
                        (ret = Nil /\ AppendedLast(ExecA(CmdLookup(c, args[3]), From(args, 4))))

\* "-f1 -tf run2 -tf": f1 is "-tf", and at run2 tf is true
C26_Witness ==
    /\ AfterExec /\ ret = Nil
    /\ Top.a = ExecA(Run2Tf, << <<"-", "tf">> >>)
    /\ bucket["f1"] = <<"-", "tf">>
    /\ bucket["tf"] = <<"bool", "true">>
    /\ AppendedLast(showVar(Run2Tf))

\* ---------------------------------------------------- the types of flags
\* the flag k of the command the resolver runs
FlagK == Commands[Top.a.n].flags[2]

\* the string vs can be read as a value of the Go type k
Parsable(k, vs) ==
    /\ Len(vs) = 1
    /\ CASE k = "string" -> TRUE
         [] k = "bool" -> vs[1] \in {"true", "false"}
         [] k \in {"int64", "int"} -> vs[1] \in {"7", "2147483648"}
         [] k = "int32" -> vs[1] = "7"
         [] k = "float64" -> vs[1] \in {"7", "2147483648", "0.1"}
         [] k = "float32" -> vs[1] \in {"7", "2147483648"}
         [] k = "duration" -> vs[1] = "7s"
         [] OTHER -> FALSE

\* the value of the Go type k read from vs
Parsed(k, vs) == IF k = "string" THEN vs ELSE <<k, vs[1]>>

\* the Go type of the bucket value of a flag whose cell or default is of
\* the Go type k
Wide(k) ==
    CASE k \in {"int", "int32"} -> "int64"
      [] k = "float32" -> "float64"
      [] OTHER -> k

\* k is given the value vs by "-k vs" alone, or by KIND_K alone
SuppliedK(vs) ==
    \/ Top.a.tags = << <<"-", "k">>, vs >> /\ "KIND_K" \notin DOMAIN env
    \/ Top.a.tags = <<>> /\ "KIND_K" \in DOMAIN env /\ env["KIND_K"] = vs

\* C27: a flag with a Value pointer and no Type, given a string that can be
\* read as a value of the type pointed to, by argument or by environment,
\* resolves, and the value read is then in the cell and in the bucket.
C27_CellOfEveryKind ==
    (AfterExec /\ Top.a.n > KindBase /\ FlagK.value # NoCell) =>
        \A vs \in KindTokens :
            (SuppliedK(vs) /\ Parsable(Elem(FlagK.value), vs)) =>
                /\ ret = Nil
                /\ "k" \in DOMAIN bucket
                /\ bucket["k"] = Parsed(Wide(Elem(FlagK.value)), vs)
                /\ "k" \in DOMAIN cells
                /\ cells["k"] = Parsed(Elem(FlagK.value), vs)

\* a Default of the Go type k can stand for a flag declared with Type ft
\* (FlagAuto takes the type of the Default)
Coercible(ft, k) ==
    CASE ft = FlagAuto -> k # "bytes"
      [] ft = FlagString -> k = "string"
      [] ft = FlagBool -> k = "bool"
      [] ft = FlagInt64 -> Wide(k) = "int64"
      [] ft = FlagFloat64 -> Wide(k) = "float64"
      [] ft = FlagDuration -> k = "duration"

\* the Default v as a value of the wide Go type
Widened(v) == IF KindOf(v) = "string" THEN v ELSE <<Wide(KindOf(v)), v[2]>>

\* C28: a Default that cannot stand for the flag's type makes the resolver
\* fail with the error of init, with nothing in the bucket but the
\* environment values of the flags declared before it: no argument, no
\* value of a later flag, nothing appended; a Default that can, for a flag
\* given no value, is in the bucket as int64 or float64 when it was declared
\* as a narrower type.
C28_DefaultChecked ==
    (AfterExec /\ Top.a.n > KindBase /\ FlagK.hasdef) =>
        IF Coercible(FlagK.type, KindOf(FlagK.def))
        THEN (Top.a.tags = <<>> /\ "KIND_K" \notin DOMAIN env) =>
                /\ ret = Nil
                /\ bucket["k"] = Widened(FlagK.def)
        ELSE /\ ret \in {ErrInvalidDefault, ErrUnknownFlagType}
             /\ DOMAIN bucket \subseteq {"e"}
             /\ "KIND_E" \in DOMAIN env => bucket["e"] = env["KIND_E"]
             /\ Len(scripts[Top.sc].list) = trace[LastStart].len

\* Flag{Name: "k", Default: 7 (an int), Type: FlagString} with "-k 7"
\* and all three environment variables set: only e is in the bucket
C28_Witness ==
    /\ AfterExec /\ ret = ErrInvalidDefault
    /\ Top.a.n > KindBase
    /\ FlagK.def = <<"int", "7">> /\ FlagK.type = FlagString
    /\ Top.a.tags = << <<"-", "k">>, <<"7">> >>
    /\ "KIND_Z" \in DOMAIN env /\ "KIND_K" \in DOMAIN env
    /\ bucket = [x \in {"e"} |-> <<"sky">>]

\* ------------------------------------------------------- unknown policies
\* pol is no combination of the policy bits
Unrecognized(pol) == pol % 2 = 1 \/ pol >= 2 * PolicySkipRollback

\* C29: when an action of the list fails under a policy that is no
\* combination of the policy bits, the RunAction that ran it returns the
\* unknown-policy error to Run.
C29_UnknownPolicy ==
    \A i \in TopFails :
        (ReturnedToRun(i) /\ Unrecognized(trace[i].pol)) => ret = ErrUnknownPolicy

\* --------------------------------------------------------- required flags
\* the Required flags of c that args gives no value and the environment
\* gives none either
NotSupplied(c, args) ==
    {i \in 1..Len(c.flags) :
        /\ "required" \in DOMAIN c.flags[i] /\ c.flags[i].required
        /\ Given(args, c.flags[i].name) = {}
        /\ ~FromEnv(c.flags[i])}

ValueFor(name, b, e) ==
    LET key == IF Len(name) = 1 THEN name[1] ELSE "" IN
    IF key \in DOMAIN b /\ b[key] # NilValue
    THEN IF b[key][1] \in GoKinds THEN <<b[key][2]>> ELSE b[key]
    ELSE IF key \in DOMAIN e THEN e[key]
    ELSE <<>>

\* s starts with a placeholder: "$", "{", a name, "}"
Placeholder(s) == Len(s) > 3 /\ s[1] = "$" /\ s[2] = "{" /\ CloseAt(s, 3) > 3

\* the text with each placeholder replaced and everything else kept
RECURSIVE Replaced(_, _, _)
Replaced(s, b, e) ==
    IF s = <<>> THEN <<>>
    ELSE IF Placeholder(s)
    THEN ValueFor(SubSeq(s, 3, CloseAt(s, 3) - 1), b, e)
         \o Replaced(SubSeq(s, CloseAt(s, 3) + 1, Len(s)), b, e)
    ELSE <<s[1]>> \o Replaced(Tail(s), b, e)

\* every "$" of s outside a placeholder opens one
RECURSIVE OnlyPlaceholders(_)
OnlyPlaceholders(s) ==
    IF s = <<>> THEN TRUE
    ELSE IF Placeholder(s) THEN OnlyPlaceholders(SubSeq(s, CloseAt(s, 3) + 1, Len(s)))
    ELSE s[1] # "$" /\ OnlyPlaceholders(Tail(s))

Got == InBody("expand", "got")

\* C31 as stated: ExpandEnv returns the text with each ${name} placeholder
\* replaced by the bucket's value, else the environment's, else nothing, and
\* with everything outside the placeholders unchanged
C31_OutsideUnchanged == Got => ret = Replaced(Top.a.tags, bucket, env)

\* C31: in a text whose every "$" opens a ${name} placeholder, ExpandEnv
\* returns the text with each placeholder replaced by the bucket's value,
\* else the environment's, else nothing, and everything else unchanged
C31_ExpandEnv ==
    Got /\ OnlyPlaceholders(Top.a.tags) => ret = Replaced(Top.a.tags, bucket, env)

\* abc${k1} with the bucket's k1 = 45 and the environment's k1 = letters
C31_Witness ==
    /\ Got
    /\ Top.a.tags = <<"abc", "$", "{", "k1", "}">>
    /\ "k1" \in DOMAIN bucket /\ bucket["k1"] = <<"int64", "45">>
    /\ "k1" \in DOMAIN env /\ env["k1"] = <<"letters">>
    /\ ret = <<"abc", "45">>

\* ------------------------------------------------------------------ C32
Returned == goroutines.main = "done"
RunHasReturned == goroutines.run \in {"store", "unlock", "end"}
Received == goroutines.main \notin {"none", "select"} \/ notify > 0

\* C32: once an interrupt has been received or run has returned, Start
\* eventually returns, whether or not run ever returns
C32_StartReturns == (Received \/ RunHasReturned) ~> Returned

\* Start has returned on the timeout although run never did
C32_Witness == Returned /\ goroutines.run = "run" /\ atClose = "run"

\* ------------------------------------------------------------------ C33
\* C33 as stated: when run had returned before the timeout closed fin (or
\* the run goroutine closed it), Start returns what run returned
C33_RunsResultOnReturn ==
    Returned /\ atClose # "run" => ret = goroutines.err

\* C33: when the run goroutine was past storing run's error before the
\* timeout closed fin (or closed fin itself), Start returns what run
\* returned: the error if there is one, nil otherwise
C33_RunsResult ==
    Returned /\ atClose = "unlock" => ret = goroutines.err

\* run returned an error, its goroutine closed fin, Start returned it
C33_Witness ==
    /\ Returned /\ atClose = "unlock"
    /\ goroutines.run = "end" /\ goroutines.timer = "unlock"
    /\ goroutines.err = ErrOf(1) /\ ret = ErrOf(1)

\* ------------------------------------------------------------------ C40
\* C40: fin is never closed twice; when Start has returned, fin was closed
\* once and the context was cancelled; and Start's wait on fin always ends
C40_ClosedOnce ==
    /\ [](fin <= 1)
    /\ [](Returned => fin = 1 /\ cancelled)
    /\ (goroutines.main = "wait" ~> goroutines.main # "wait")

\* both goroutines have called unlockOnce and Start has returned
C40_Witness ==
    /\ Returned /\ fin = 1 /\ cancelled
    /\ goroutines.run = "end" /\ goroutines.timer = "end" /\ sent > 0

\* ------------------------------------------------------------------ C34
\* failures after which RunAction ran the rollback sequence
RanRollback == {i \in Evs("fail") : trace[i].sc = MainSc /\ Triggers(trace[i].pol)
                                  /\ trace[i].rb > 0}

\* C34: no position of the rollback list is started twice, however many
\* RunAction calls ran the rollback sequence
C34_RollbackOnce ==
    MainRb # 0 =>
        \A p \in 1..Len(scripts[MainRb].list) : Cardinality(StartsOf(MainRb, p)) <= 1

\* one failure ran the rollback sequence from the inner and from the outer
\* RunAction: the first rollback action failed in the inner run, the second
\* was started by the outer one
C34_Witness ==
    /\ MainRb # 0
    /\ \E i, j \in RanRollback :
         /\ i < j /\ trace[i].pos = 0 /\ trace[j].pos > 0
         /\ trace[i].err = trace[j].err \/ Reports(trace[j].err, trace[i].err)
         /\ \E h \in StartsOf(MainRb, 2) : h > j
         /\ \E h \in StartsOf(MainRb, 1) : i < h /\ h < j

\* two separate failures of one run ran the rollback sequence
C34_Separate ==
    \E i, j \in RanRollback :
        /\ i < j /\ trace[i].pos = 0 /\ trace[j].pos = 0
        /\ Owner(i) # Owner(j)
        /\ \E h \in StartsOf(MainRb, 2) : h > j

\* ------------------------------------------------------------------ C35
\* failures of leaf actions, in whichever script
WorkFails == {i \in Evs("fail") : trace[i].a.k = "work"}

\* C35: when a run is over in which exactly one leaf action failed, under a
\* policy with the Log bit and with an error logger, the logger was handed
\* exactly one error, whatever wraps the leaf
C35_LoggedOnce ==
    (/\ Done /\ logger
     /\ Cardinality(WorkFails) = 1
     /\ \A i \in WorkFails : HasBit(trace[i].pol, PolicyLog))
    => Cardinality(Evs("log")) = 1

\* ------------------------------------------------------------------ C36
\* the RunAction that runNext called from the top-level Run is at its
\* cancellation check and the token has fired
AtBoundary ==
    /\ Len(stack) = 2 /\ stack[1].f = "Run" /\ stack[1].sc = MainSc
    /\ Top.f = "RunAction" /\ Top.pc = "check" /\ Top.ctx = "ctx" /\ cancelled

\* that RunAction has returned the cancellation error to the loop of Run
StoppedAtBoundary ==
    /\ Len(stack) = 1 /\ Top.f = "Run" /\ Top.pc = "ret" /\ Top.sc = MainSc
    /\ ret = Canceled /\ ~Started(MainSc, scripts[MainSc].at)

ChildRb == scripts[ChildSc].rollback

\* the actions that run the nested script
Runner(a) == a.k \in {"script", "stdcombined"}

\* failures of actions of the nested script's list that trigger rollback
ChildFails ==
    {i \in Evs("fail") : /\ trace[i].sc = ChildSc /\ trace[i].pos > 0
                         /\ Triggers(trace[i].pol) /\ trace[i].err # Nil}

\* every rollback action that is started for the nested script is started
\* while an action of the enclosing list that runs the nested script runs
C37_Scoped ==
    ChildRb # 0 =>
        \A h \in Evs("start") : trace[h].sc = ChildRb => Runner(trace[Owner(h)].a)

\* C37: rollback actions registered inside a nested script are all run when
\* a later action of the nested script fails, and none of them is run for a
\* failure of the enclosing script
C37_NestedRollback ==
    /\ C37_Scoped
    /\ Done => \A i \in ChildFails :
                  \A p \in 1..trace[i].rb : Started(ChildRb, p)

\* ------------------------------------------------------------------ C38
\* the history entries of the caller running the script again
Reruns == Evs("run")

\* the starts of actions of the nested script's list behind the second
\* start of an action that runs the nested script
SecondChildStarts ==
    {h \in Evs("start") :
        /\ trace[h].sc = ChildSc /\ trace[h].pos > 0
        /\ \E j1, j2 \in Evs("start") :
             /\ j1 < j2 /\ j2 < h
             /\ trace[j1].sc = MainSc /\ Runner(trace[j1].a)
             /\ trace[j2].sc = MainSc /\ Runner(trace[j2].a)}

\* C38 as stated: a second Run starts only actions appended since the first
\* Run returned, a nested script reached again starts nothing (nothing is
\* appended to it), and a second Run with nothing appended returns nil
C38_OnlyAppended ==
    /\ \A m \in Reruns : \A h \in Evs("start") :
         (h > m /\ trace[h].sc = MainSc /\ trace[h].pos > 0)
            => trace[h].pos > trace[m].len
    /\ SecondChildStarts = {}
    /\ \A m \in Reruns : (Done /\ trace[m].a.n = 0) => ret = Nil

\* C38: no position of a list is ever started twice, whoever runs the
\* script again; and a Run that finds the cursor at the end of the list
\* starts nothing and returns nil
C38_CursorNeverReset ==
    /\ \A sc \in {MainSc, ChildSc} : \A p \in 1..Len(scripts[sc].list) :
         Cardinality(StartsOf(sc, p)) <= 1
    /\ \A m \in Reruns :
         trace[m].pos = trace[m].len + trace[m].a.n =>
            /\ \A h \in Evs("start") : h > m => \E n \in Reruns : m < n /\ n < h
            /\ (Done /\ \A n \in Reruns : n <= m) => ret = Nil

\* the first Run consumed the whole list, the caller added an action and
\* ran the script again: only the added action was started
C38_Witness ==
    /\ Done
    /\ \E m \in Reruns :
         /\ trace[m].pos = trace[m].len /\ trace[m].a.n = 1
         /\ \E h \in StartsOf(MainSc, trace[m].len + 1) : h > m
         /\ \A h \in Evs("start") :
              (h > m /\ trace[h].sc = MainSc) => trace[h].pos = trace[m].len + 1

\* ------------------------------------------------------------------ C39
\* how long the list was when Run took its first action, the resolver
Queued == trace[1].len

\* the starts of what the resolvers appended: child resolvers and the leaf
AppendedStarts ==
    {h \in Evs("start") : trace[h].sc = MainSc /\ trace[h].pos > Queued}

\* the Branch the queued actions leave behind
BranchLeft ==
    IF \E p \in 2..Queued : scripts[MainSc].list[p].k = "branch"
    THEN BranchTrue ELSE BranchUnset

\* C39: whatever a resolver appends, a child resolver or the leaf action, is
\* started only after every action queued behind the first resolver was
\* started, and finds the State as they left it
C39_AppendedAtEnd ==
    \A h \in AppendedStarts :
        /\ \A p \in 2..Queued : \E g \in StartsOf(MainSc, p) : g < h
        /\ trace[h].br = BranchLeft

\* run1's leaf action was started last, behind the child resolver, behind
\* the two queued actions, with the Branch the queued SetBranch left
C39_Witness ==
    /\ Done /\ trace # <<>> /\ Queued = 3
    /\ scripts[MainSc].list[2] = SetBranch(BranchTrue)
    /\ \E h \in StartsOf(MainSc, 5), g \in StartsOf(MainSc, 4) :
         /\ g < h /\ trace[g].a.k = "exec" /\ trace[h].a.k = "show"
         /\ trace[h].br = BranchTrue
         /\ \A e \in StartsOf(MainSc, 3) : e < g

====
